---- MODULE Spec2Model ----
(***************************************************************************)
(* Proxy group manager (src/zabbix_server/pgmanager/pg_manager.c).         *)
(*                                                                         *)
(* The model covers the status evaluator pgm_update_status (proxy          *)
(* classification and the group status machine) and the main loop of       *)
(* pg_manager_thread that drives it together with group sync, proxy        *)
(* relocation, the idle sleep and the flush.                               *)
(*                                                                         *)
(* Time.  The code reads timestamps only through differences against the   *)
(* current time (now - lastaccess, now - firstaccess, now - startup_time,  *)
(* now - status_time, time_update - time_now), so its behaviour does not   *)
(* change when every stored timestamp and the clock are shifted by the     *)
(* same amount.  The model keeps the clock at Now and, when d seconds      *)
(* pass, moves every stored timestamp d seconds into the past instead      *)
(* (Shift).  A timestamp never moves below 1: with Now - 1 greater than    *)
(* every failover delay and than the check interval, a timestamp that old  *)
(* compares like any older one.  0 stays 0: it is the code's "not set".    *)
(***************************************************************************)
EXTENDS Integers, Sequences, FiniteSets, TLC

(* ------------------------------ bounds -------------------------------- *)

\* the clock; timestamps range over 0..Horizon
Horizon == 8
\* largest number of seconds one loop iteration may take
MaxStep == 5
\* largest min_online a group is configured with
MaxMinOnline == 2
\* largest group revision the configuration cache hands out
MaxRevision == 2
\* longest relocation queue the IPC thread builds up
MaxReloc == 1
\* relocation events the IPC thread queues in all
MaxEvents == 2
\* largest number of new mappings one flush inserts
MaxNew == 2500
\* most commits in a row that report the database down
MaxDown == 2
\* most host mappings set in the cache in one tick
MaxAssign == 2
MaxQueue == 2
MaxNames == 3

GroupIds == {1, 2}
ProxyIds == {1, 2}
HostIds == {1, 2}
\* failover delays the groups are configured with: one below and one above
\* the check interval
FailoverDelays == {2, 6}
\* the configurations the loop's groups start with, per group
BootConfigs ==
    {<<[failover_delay |-> 6, min_online |-> 1], [failover_delay |-> 2, min_online |-> 1]>>,
     <<[failover_delay |-> 6, min_online |-> 2], [failover_delay |-> 6, min_online |-> 1]>>}
\* the groups the loop's proxies start in, per proxy
BootAssigns == {<<1, 1>>, <<1, 2>>}
\* seconds one loop iteration may take: the nominal sleep, or a slow iteration
StepLengths == {1, MaxStep}

Now == Horizon

(* ---------------------------- constants ------------------------------- *)

PGM_STATUS_CHECK_INTERVAL == 5
PGM_INSERT_BATCH_SIZE == 1000

ZBX_PG_PROXY_STATUS_UNKNOWN == "P_UNKNOWN"
ZBX_PG_PROXY_STATUS_OFFLINE == "P_OFFLINE"
ZBX_PG_PROXY_STATUS_ONLINE == "P_ONLINE"
ProxyStatuses ==
    {ZBX_PG_PROXY_STATUS_UNKNOWN, ZBX_PG_PROXY_STATUS_OFFLINE, ZBX_PG_PROXY_STATUS_ONLINE}

ZBX_PG_GROUP_STATUS_UNKNOWN == "UNKNOWN"
ZBX_PG_GROUP_STATUS_ONLINE == "ONLINE"
ZBX_PG_GROUP_STATUS_OFFLINE == "OFFLINE"
ZBX_PG_GROUP_STATUS_RECOVERY == "RECOVERY"
ZBX_PG_GROUP_STATUS_DECAY == "DECAY"
GroupStatuses ==
    {ZBX_PG_GROUP_STATUS_UNKNOWN, ZBX_PG_GROUP_STATUS_ONLINE, ZBX_PG_GROUP_STATUS_OFFLINE,
     ZBX_PG_GROUP_STATUS_RECOVERY, ZBX_PG_GROUP_STATUS_DECAY}

ZBX_PG_GROUP_UPDATE_STATUS == "UPDATE_STATUS"
ZBX_PG_GROUP_UPDATE_HP_MAP == "UPDATE_HP_MAP"

(* ------------------------------ state --------------------------------- *)

VARIABLES
    groups,             \* cache->groups: group id -> zbx_pg_group_t
    proxies,            \* cache->proxies: proxy id -> zbx_pg_proxy_t, or NoProxy
    group_updates,      \* cache->group_updates: sequence of group ids
    relocated_proxies,  \* cache->relocated_proxies: sequence of zbx_objmove_t
    group_revision,     \* cache->group_revision
    startup_time,       \* cache->startup_time
    time_update,        \* pg_manager_thread: time_update
    time_now,           \* pg_manager_thread: time_now
    running,            \* ZBX_IS_RUNNING()
    pc,                 \* position of the manager thread
    steps,              \* the steps the current loop iteration has run, in order
    updated,            \* whether a loop iteration has synced and evaluated yet
    dc_proxy_group,     \* configuration cache: the group each proxy belongs to (0: none)
    in_lastaccess,      \* repeated evaluation: lastaccess the configuration cache reports
    in_junk,            \* repeated evaluation: what an out-of-bounds proxies.values[i] reads
    ipc_events,         \* relocation events the IPC thread has queued so far
    in_order,           \* repeated evaluation: iteration order of the proxies hashset
    hpmap,              \* cache->hpmap: host id -> zbx_pg_host_t, or NoHost
    hpmap_revision,     \* cache->hpmap_revision
    hosts_pending,      \* cache: the new, modified and deleted mappings not yet drained
    group_hosts,        \* group id -> the group's hostids and new_hostids
    proxy_hosts,        \* proxy id -> proxy->hosts, the host ids of its mappings
    db,                 \* the database: committed tables
    tx,                 \* the database: the open transaction and the last commit result
    snap,               \* pgm_flush_updates: groups, hosts_new, hosts_mod, hosts_del
    dc_pub,             \* the calls of zbx_dc_update_group_hpmap_revision so far
    bt,                 \* pgm_db_flush_host_proxy_inserts: the batch loop
    lk,                 \* the cache lock and what the manager thread is doing
    clock,              \* pgm_db_get_proxies: clock
    nm,                 \* pgm_update_proxies: proxyids, names and the names given out
    hist,               \* the relocation events queued and applied so far
    pull,               \* pgm_update_groups: what zbx_dc_get_proxy_groups returned last
    changed_groups      \* the groups a host of which got a proxy in the current tick

vars == <<groups, proxies, group_updates, relocated_proxies, group_revision, startup_time,
          time_update, time_now, running, pc, steps, updated, dc_proxy_group,
          in_lastaccess, in_junk, in_order, ipc_events, hpmap, hpmap_revision,
          hosts_pending, group_hosts, proxy_hosts, db, tx, snap, dc_pub, bt, lk,
          clock, nm, hist, pull, changed_groups>>

NoProxy == [group |-> 0]
\* a group id that is not in cache->groups
NoGroup == [revision |-> 0]

Max(a, b) == IF a >= b THEN a ELSE b

\* a timestamp after d more seconds have passed
Shift(t, d) == IF t = 0 THEN 0 ELSE Max(1, t - d)

Range(s) == {s[i] : i \in 1..Len(s)}

\* the proxies in the cache
CachedProxies(prx) == {p \in ProxyIds : prx[p] # NoProxy}

(* ----------------------- pgm_update_status ---------------------------- *)

\* pg_cache_queue_group_update: append unless already queued
pg_cache_queue_group_update(gu, g) == IF g \in Range(gu) THEN gu ELSE Append(gu, g)

\* line 254: the lastaccess the classification uses, given the refreshed value la
used_lastaccess(la) == Now

\* lines 256-273: the status computed for a proxy and its new firstaccess
proxy_classify(proxy, failover_delay, startup) ==
    IF Now - proxy.lastaccess >= failover_delay
    THEN IF Now - startup >= failover_delay
         THEN [status |-> ZBX_PG_PROXY_STATUS_OFFLINE, firstaccess |-> 0]
         ELSE [status |-> ZBX_PG_PROXY_STATUS_UNKNOWN, firstaccess |-> proxy.firstaccess]
    ELSE LET fa == IF 0 = proxy.firstaccess THEN proxy.lastaccess ELSE proxy.firstaccess
         IN  [status |-> IF Now - fa >= failover_delay
                         THEN ZBX_PG_PROXY_STATUS_ONLINE
                         ELSE ZBX_PG_PROXY_STATUS_UNKNOWN,
              firstaccess |-> fa]

\* lines 275-278: the status stored for a proxy whose computed status is status
proxy_apply(old, status) ==
    IF ZBX_PG_PROXY_STATUS_UNKNOWN = status \/ old = status THEN old ELSE status

\* lines 242-278 for one proxy: the proxy after the refresh and the classification
proxy_update(proxy, la, failover_delay, startup) ==
    LET refreshed == [proxy EXCEPT !.lastaccess = used_lastaccess(la)]
        c == proxy_classify(refreshed, failover_delay, startup)
    IN  [refreshed EXCEPT !.firstaccess = c.firstaccess,
                          !.status = proxy_apply(proxy.status, c.status)]

\* lines 250-280 over the whole hashset
update_proxies(grps, prx, la, startup) ==
    [p \in ProxyIds |->
        IF prx[p] = NoProxy THEN NoProxy
        ELSE proxy_update(prx[p], la[p], grps[prx[p].group].failover_delay, startup)]

\* line 279 in hashset iteration order: the groups of the proxies whose status changed
RECURSIVE queue_changed(_, _, _, _)
queue_changed(gu, old, new, order) ==
    IF order = <<>> THEN gu
    ELSE LET p == Head(order)
             q == IF old[p] # NoProxy /\ old[p].status # new[p].status
                  THEN pg_cache_queue_group_update(gu, old[p].group)
                  ELSE gu
         IN  queue_changed(q, old, new, Tail(order))

\* lines 289, 293: group->proxies.values[i], i the index of the group in
\* group_updates (from 0); junk is what the read yields past the end of the vector
proxies_values(group, i, prx, junk) ==
    IF i < Len(group.proxies) THEN prx[group.proxies[i + 1]] ELSE junk

\* lines 285-299: online
count_online(group, i, prx, junk) ==
    Cardinality({j \in 1..Len(group.proxies) :
        ZBX_PG_PROXY_STATUS_ONLINE = proxies_values(group, i, prx, junk).status})

\* lines 285-299: healthy
count_healthy(group, i, prx, junk) ==
    Cardinality({j \in 1..Len(group.proxies) :
        /\ ZBX_PG_PROXY_STATUS_ONLINE = proxies_values(group, i, prx, junk).status
        /\ Now - proxies_values(group, i, prx, junk).lastaccess + PGM_STATUS_CHECK_INTERVAL
               < group.failover_delay})

\* case ZBX_PG_GROUP_STATUS_ONLINE with >= for the > of line 309
status_online_m(status, group, healthy) ==
    IF group.min_online >= healthy THEN ZBX_PG_GROUP_STATUS_DECAY ELSE status

\* lines 308-311: case ZBX_PG_GROUP_STATUS_ONLINE, entered with status (the
\* group's own, or ONLINE when UNKNOWN falls through)
status_online(status, group, healthy) ==
    IF group.min_online > healthy THEN ZBX_PG_GROUP_STATUS_DECAY ELSE status

\* case ZBX_PG_GROUP_STATUS_OFFLINE going straight to ONLINE
status_offline_m(group, online) ==
    IF group.min_online <= online THEN ZBX_PG_GROUP_STATUS_ONLINE ELSE group.status

\* lines 312-315: case ZBX_PG_GROUP_STATUS_OFFLINE
status_offline(group, online) ==
    IF group.min_online <= online THEN ZBX_PG_GROUP_STATUS_RECOVERY ELSE group.status

\* lines 316-326: case ZBX_PG_GROUP_STATUS_RECOVERY
status_recovery(group, online, healthy) ==
    IF group.min_online > healthy
    THEN ZBX_PG_GROUP_STATUS_DECAY
    ELSE IF Now - group.status_time > group.failover_delay \/ Len(group.proxies) = online
         THEN ZBX_PG_GROUP_STATUS_RECOVERY
         ELSE group.status

\* case ZBX_PG_GROUP_STATUS_DECAY with online for the healthy of line 328
status_decay_m(group, online, healthy) ==
    IF group.min_online <= online
    THEN ZBX_PG_GROUP_STATUS_ONLINE
    ELSE IF group.min_online > online THEN ZBX_PG_GROUP_STATUS_OFFLINE ELSE group.status

\* lines 327-332: case ZBX_PG_GROUP_STATUS_DECAY
status_decay(group, online, healthy) ==
    IF group.min_online <= healthy
    THEN ZBX_PG_GROUP_STATUS_ONLINE
    ELSE IF group.min_online > online THEN ZBX_PG_GROUP_STATUS_OFFLINE ELSE group.status

\* lines 301-333: the switch
group_next_status(group, online, healthy) ==
    CASE group.status = ZBX_PG_GROUP_STATUS_UNKNOWN ->
            status_online(ZBX_PG_GROUP_STATUS_ONLINE, group, healthy)
      [] group.status = ZBX_PG_GROUP_STATUS_ONLINE ->
            status_online(group.status, group, healthy)
      [] group.status = ZBX_PG_GROUP_STATUS_OFFLINE -> status_offline(group, online)
      [] group.status = ZBX_PG_GROUP_STATUS_RECOVERY -> status_recovery(group, online, healthy)
      [] group.status = ZBX_PG_GROUP_STATUS_DECAY -> status_decay(group, online, healthy)
      [] OTHER -> group.status

\* lines 335-340 with status_time written whether or not the status changed
group_apply_m(group, status) ==
    [group EXCEPT !.status = status,
                  !.status_time = Now,
                  !.flags = IF status # group.status
                            THEN {ZBX_PG_GROUP_UPDATE_STATUS} ELSE @]

\* lines 335-340: the group after its evaluation yielded status
group_apply(group, status) ==
    IF status # group.status
    THEN [group EXCEPT !.status = status,
                       !.status_time = Now,
                       !.flags = {ZBX_PG_GROUP_UPDATE_STATUS}]
    ELSE group

\* lines 284-340 for the group at index i of group_updates
group_update(group, i, prx, junk) ==
    group_apply(group,
        group_next_status(group, count_online(group, i, prx, junk),
                                 count_healthy(group, i, prx, junk)))

\* lines 282-341: the loop over group_updates, from index i
RECURSIVE update_groups(_, _, _, _, _)
update_groups(grps, gu, i, prx, junk) ==
    IF i >= Len(gu) THEN grps
    ELSE update_groups([grps EXCEPT ![gu[i + 1]] = group_update(@, i, prx, junk[i])],
                       gu, i + 1, prx, junk)

\* pgm_update_status: the cache after one evaluation.  la is what
\* zbx_dc_get_group_proxy_lastaccess reports, order the iteration order of the
\* proxies hashset, junk[i] what proxies.values[i] reads when i is past the end
pgm_update_status(grps, prx, gu, startup, la, order, junk) ==
    LET prx1 == update_proxies(grps, prx, la, startup)
        gu1 == queue_changed(gu, prx, prx1, order)
    IN  [groups |-> update_groups(grps, gu1, 0, prx1, junk),
         proxies |-> prx1,
         group_updates |-> gu1]

(* ------------------------ pgm_update_groups --------------------------- *)

\* lines 67-81 in hashset iteration order: queue the groups whose revision is
\* above the cache revision held before the pull
RECURSIVE queue_revised(_, _, _, _)
queue_revised(gu, grps, old_revision, order) ==
    IF order = <<>> THEN gu
    ELSE LET g == Head(order)
             q == IF old_revision >= grps[g].revision
                  THEN gu
                  ELSE pg_cache_queue_group_update(gu, g)
         IN  queue_revised(q, grps, old_revision, Tail(order))

(* ------------------------ pgm_update_proxies -------------------------- *)

\* a sequence without its elements equal to x
RECURSIVE Without(_, _)
Without(s, x) ==
    IF s = <<>> THEN <<>>
    ELSE IF Head(s) = x THEN Without(Tail(s), x) ELSE <<Head(s)>> \o Without(Tail(s), x)

\* lines 722-764 for one relocation event
relocate(c, reloc) ==
    LET p == reloc.objid
        \* lines 728-735
        removed == reloc.srcid # 0 /\ c.groups[reloc.srcid] # NoGroup
                   /\ c.proxies[p] # NoProxy
                   /\ p \in Range(c.groups[reloc.srcid].proxies)
        c1 == IF reloc.srcid # 0 /\ c.groups[reloc.srcid] # NoGroup
              THEN [c EXCEPT !.groups[reloc.srcid].proxies = Without(@, p),
                             !.group_updates =
                                 pg_cache_queue_group_update(@, reloc.srcid)]
              ELSE c
    IN  IF reloc.dstid # 0
        THEN \* lines 739-760
             IF c.groups[reloc.dstid] = NoGroup THEN c1 ELSE
             LET c2 == IF removed
                       THEN c1
                       ELSE [c1 EXCEPT !.proxies[p] =
                                [group |-> reloc.dstid,
                                 status |-> ZBX_PG_PROXY_STATUS_UNKNOWN,
                                 lastaccess |-> 0, firstaccess |-> 0]]
                 \* line 754 or line 757: the proxy joins the list; line 757
                 \* writes nothing else, the moved proxy keeps its group field
             IN  [c2 EXCEPT !.groups[reloc.dstid].proxies = Append(@, p),
                            !.group_updates =
                                pg_cache_queue_group_update(@, reloc.dstid)]
        ELSE \* lines 762-763
             IF removed THEN [c1 EXCEPT !.proxies[p] = NoProxy] ELSE c1

\* the events of the queue from the last one to the first one
RECURSIVE relocate_all_m(_, _)
relocate_all_m(c, queue) ==
    IF queue = <<>> THEN c ELSE relocate(relocate_all_m(c, Tail(queue)), Head(queue))

\* lines 722-764: the events of the queue in order
RECURSIVE relocate_all(_, _)
relocate_all(c, queue) ==
    IF queue = <<>> THEN c ELSE relocate_all(relocate(c, Head(queue)), Tail(queue))

(* ------------------------ pg_manager_thread --------------------------- *)

\* line 822: whether the iteration syncs the groups and evaluates the status
update_due(tu, tn) == PGM_STATUS_CHECK_INTERVAL >= tu - tn

\* the loop body with the flush moved before the sleep
loop_next_m(step) ==
    CASE step = "head" -> "update_groups"
      [] step = "update_groups" -> "update_status"
      [] step = "update_status" -> "update_proxies"
      [] step = "skip_update" -> "update_proxies"
      [] step = "update_proxies" -> "flush"
      [] step = "flush" -> "sleep"
      [] step = "sleep" -> "head"

\* lines 816-840: the step that follows a step of the loop body
loop_next(step) ==
    CASE step = "head" -> "update_groups"
      [] step = "update_groups" -> "update_status"
      [] step = "update_status" -> "update_proxies"
      [] step = "skip_update" -> "update_proxies"
      [] step = "update_proxies" -> "sleep"
      [] step = "sleep" -> "flush"
      [] step = "flush" -> "head"

Orders(S) ==
    {s \in [1..Cardinality(S) -> S] : \A i, j \in 1..Cardinality(S) : i # j => s[i] # s[j]}

\* what a read past the end of proxies.values may yield: a proxy that is not
\* ONLINE, an ONLINE one seen long ago, an ONLINE one seen just now
JunkProxies ==
    {[status |-> ZBX_PG_PROXY_STATUS_UNKNOWN, lastaccess |-> 1],
     [status |-> ZBX_PG_PROXY_STATUS_ONLINE, lastaccess |-> 1],
     [status |-> ZBX_PG_PROXY_STATUS_ONLINE, lastaccess |-> Now]}

\* what an out-of-bounds read yields, per index of group_updates
JunkReads == {[i \in 0..Cardinality(GroupIds) - 1 |-> j] : j \in JunkProxies}

\* what zbx_dc_get_group_proxy_lastaccess reports: every proxy long silent, or
\* every proxy seen just now
LastaccessReports == {[p \in ProxyIds |-> t] : t \in {1, Now}}

NoInput == <<>>

\* the host mappings, the database and the lock, where a specification leaves
\* them out
ext_init ==
    /\ hpmap = NoInput
    /\ hpmap_revision = 0
    /\ hosts_pending = NoInput
    /\ group_hosts = NoInput
    /\ proxy_hosts = NoInput
    /\ db = NoInput
    /\ tx = NoInput
    /\ snap = NoInput
    /\ dc_pub = <<>>
    /\ bt = NoInput
    /\ lk = NoInput
    /\ clock = 0
    /\ nm = NoInput
    /\ hist = NoInput
    /\ pull = NoInput
    /\ changed_groups = {}

hosts_same ==
    UNCHANGED <<hpmap, hpmap_revision, hosts_pending, group_hosts, proxy_hosts, changed_groups>>
db_same == UNCHANGED <<db, tx, snap, dc_pub, bt, clock, nm, hist, pull>>
lk_same == UNCHANGED lk
ext_same == hosts_same /\ db_same /\ lk_same

\* lines 803-812: the cache when the loop is entered.  pgm_update_groups has
\* queued every group, pgm_db_get_proxies has left every proxy ONLINE (line 170)
\* with firstaccess 0.
BootGroup(fd, mo, prx) ==
    [status |-> ZBX_PG_GROUP_STATUS_UNKNOWN, status_time |-> 0, flags |-> {},
     failover_delay |-> fd, min_online |-> mo, revision |-> 1, proxies |-> prx]

BootProxy(g) ==
    [group |-> g, status |-> ZBX_PG_PROXY_STATUS_ONLINE, lastaccess |-> 0, firstaccess |-> 0]

\* the proxies of group g in the order of the sequence order
RECURSIVE Members(_, _, _)
Members(assign, g, order) ==
    IF order = <<>> THEN <<>>
    ELSE (IF assign[Head(order)] = g THEN <<Head(order)>> ELSE <<>>)
         \o Members(assign, g, Tail(order))

Init ==
    /\ \E assign \in BootAssigns, cfg \in BootConfigs :
          /\ groups = [g \in GroupIds |->
                          BootGroup(cfg[g].failover_delay, cfg[g].min_online,
                                    Members(assign, g, <<1, 2>>))]
          /\ proxies = [p \in ProxyIds |->
                           IF assign[p] = 0 THEN NoProxy ELSE BootProxy(assign[p])]
          /\ dc_proxy_group = [p \in ProxyIds |-> assign[p]]
    /\ group_updates = <<1, 2>>
    /\ relocated_proxies = <<>>
    /\ group_revision = 1
    /\ startup_time = Now
    /\ time_update = Now
    /\ time_now = Now
    /\ running = TRUE
    /\ pc = "head"
    /\ steps = <<>>
    /\ updated = FALSE
    /\ in_lastaccess = NoInput
    /\ in_junk = NoInput
    /\ in_order = NoInput
    /\ ipc_events = 0
    /\ ext_init

Cache == [groups |-> groups, proxies |-> proxies, group_updates |-> group_updates]


inputs_unchanged == UNCHANGED <<in_lastaccess, in_junk, in_order>>
ipc_same == UNCHANGED ipc_events
updated_same == UNCHANGED updated

\* lines 816-822: the loop test, time_now and the interval test
LoopHead ==
    /\ pc = "head"
    /\ IF running
       THEN /\ time_now' = Now
            /\ pc' = IF update_due(time_update, Now)
                     THEN loop_next("head") ELSE loop_next("skip_update")
       ELSE /\ pc' = "stopped"
            /\ UNCHANGED time_now
    /\ steps' = <<>>
    /\ UNCHANGED <<groups, proxies, group_updates, relocated_proxies, group_revision,
                   startup_time, time_update, running, dc_proxy_group>>
    /\ inputs_unchanged
    /\ ext_same
    /\ ipc_same
    /\ updated_same

\* line 824, pgm_update_groups (lines 57-82).  zbx_dc_get_proxy_groups fails, or
\* reports no change, or reports a new min_online for one group under a new revision
UpdateGroups ==
    /\ pc = "update_groups"
    /\ \/ UNCHANGED <<groups, group_updates, group_revision>>
       \/ /\ group_revision < MaxRevision
          /\ \E g \in GroupIds, mo \in 0..MaxMinOnline, order \in Orders(GroupIds) :
                /\ mo # groups[g].min_online
                /\ group_revision' = group_revision + 1
                /\ groups' = [groups EXCEPT ![g].min_online = mo,
                                            ![g].revision = group_revision + 1]
                /\ group_updates' = queue_revised(group_updates, groups', group_revision, order)
    /\ pc' = loop_next("update_groups")
    /\ steps' = Append(steps, "update_groups")
    /\ UNCHANGED <<proxies, relocated_proxies, startup_time, time_update, time_now,
                   running, dc_proxy_group>>
    /\ inputs_unchanged
    /\ ext_same
    /\ ipc_same
    /\ updated_same

\* lines 826-828, pgm_update_status (lines 238-344) and time_update = time_now
UpdateStatus ==
    /\ pc = "update_status"
    /\ \E la \in LastaccessReports, order \in Orders(ProxyIds), junk \in JunkReads :
          LET c == pgm_update_status(groups, proxies, group_updates, startup_time,
                                     la, order, junk)
          IN  /\ groups' = c.groups
              /\ proxies' = c.proxies
              /\ group_updates' = c.group_updates
    /\ time_update' = time_now
    /\ updated' = TRUE
    /\ pc' = loop_next("update_status")
    /\ steps' = Append(steps, "update_status")
    /\ UNCHANGED <<relocated_proxies, group_revision, startup_time, time_now, running,
                   dc_proxy_group>>
    /\ inputs_unchanged
    /\ ext_same
    /\ ipc_same

\* lines 831-832, pgm_update_proxies (lines 689-773)
UpdateProxies ==
    /\ pc = "update_proxies"
    /\ IF 0 # Len(relocated_proxies)
       THEN LET c == relocate_all(Cache, relocated_proxies)
            IN  /\ groups' = c.groups
                /\ proxies' = c.proxies
                /\ group_updates' = c.group_updates
                /\ relocated_proxies' = <<>>
                /\ steps' = Append(steps, "update_proxies")
       ELSE UNCHANGED <<groups, proxies, group_updates, relocated_proxies, steps>>
    /\ pc' = loop_next("update_proxies")
    /\ UNCHANGED <<group_revision, startup_time, time_update, time_now, running,
                   dc_proxy_group>>
    /\ inputs_unchanged
    /\ ext_same
    /\ ipc_same
    /\ updated_same

\* lines 834-836, zbx_sleep_loop(info, 1): d seconds pass
Sleep ==
    /\ pc = "sleep"
    /\ \E d \in StepLengths :
          /\ groups' = [g \in GroupIds |->
                           [groups[g] EXCEPT !.status_time = Shift(@, d)]]
          /\ proxies' = [p \in ProxyIds |->
                            IF proxies[p] = NoProxy THEN NoProxy
                            ELSE [proxies[p] EXCEPT !.lastaccess = Shift(@, d),
                                                    !.firstaccess = Shift(@, d)]]
          /\ startup_time' = Shift(startup_time, d)
          /\ time_update' = Shift(time_update, d)
          /\ time_now' = Shift(time_now, d)
    /\ pc' = loop_next("sleep")
    /\ steps' = Append(steps, "sleep")
    /\ UNCHANGED <<group_updates, relocated_proxies, group_revision, running, dc_proxy_group>>
    /\ inputs_unchanged
    /\ ext_same
    /\ ipc_same
    /\ updated_same

\* pg_cache_get_updates as pgm_flush_updates uses it (line 603): the queued groups
\* are handed over with their flags and the queue is emptied
pg_cache_get_updates(grps, gu) ==
    [groups |-> [g \in GroupIds |->
                    IF g \in Range(gu) THEN [grps[g] EXCEPT !.flags = {}] ELSE grps[g]],
     group_updates |-> <<>>]

\* lines 838-839, pgm_flush_updates (lines 591-652)
Flush ==
    /\ pc = "flush"
    /\ IF 0 # Len(group_updates)
       THEN LET c == pg_cache_get_updates(groups, group_updates)
            IN  /\ groups' = c.groups
                /\ group_updates' = c.group_updates
                /\ steps' = Append(steps, "flush")
       ELSE UNCHANGED <<groups, group_updates, steps>>
    /\ pc' = loop_next("flush")
    /\ UNCHANGED <<proxies, relocated_proxies, group_revision, startup_time, time_update,
                   time_now, running, dc_proxy_group>>
    /\ inputs_unchanged
    /\ ext_same
    /\ ipc_same
    /\ updated_same

\* the IPC service thread queues the relocation of a proxy that the
\* configuration cache moved from its group to another one (0: no group)
IpcRelocate ==
    /\ pc # "stopped"
    /\ Len(relocated_proxies) < MaxReloc
    /\ ipc_events < MaxEvents
    /\ ipc_events' = ipc_events + 1
    /\ updated_same
    /\ \E p \in ProxyIds, dst \in GroupIds \cup {0} :
          /\ dst # dc_proxy_group[p]
          /\ relocated_proxies' = Append(relocated_proxies,
                 [objid |-> p, srcid |-> dc_proxy_group[p], dstid |-> dst])
          /\ dc_proxy_group' = [dc_proxy_group EXCEPT ![p] = dst]
    /\ UNCHANGED <<groups, proxies, group_updates, group_revision, startup_time,
                   time_update, time_now, running, pc, steps>>
    /\ inputs_unchanged
    /\ ext_same

\* the process is told to stop: ZBX_IS_RUNNING() turns false
Stop ==
    /\ running
    /\ pc # "stopped"
    /\ running' = FALSE
    /\ UNCHANGED <<groups, proxies, group_updates, relocated_proxies, group_revision,
                   startup_time, time_update, time_now, pc, steps, dc_proxy_group>>
    /\ inputs_unchanged
    /\ ext_same
    /\ ipc_same
    /\ updated_same

Next ==
    \/ LoopHead
    \/ UpdateGroups
    \/ UpdateStatus
    \/ UpdateProxies
    \/ Sleep
    \/ Flush
    \/ IpcRelocate
    \/ Stop

Spec == Init /\ [][Next]_vars

\* the manager thread never stops taking its next step; the IPC thread, the
\* configuration cache and the stop signal are under no obligation
FairSpec ==
    /\ Spec
    /\ WF_vars(LoopHead)
    /\ WF_vars(UpdateGroups)
    /\ WF_vars(UpdateStatus)
    /\ WF_vars(UpdateProxies)
    /\ WF_vars(Sleep)
    /\ WF_vars(Flush)

(* ---------------- pgm_update_status on given caches ------------------- *)

\* proxy lists of the two groups
EvalLayouts == {<<<<1, 2>>, <<>>>>, <<<<1>>, <<2>>>>, <<<<>>, <<1, 2>>>>}

EvalConfigs == [failover_delay : FailoverDelays, min_online : 0..MaxMinOnline]

EvalQueues == {<<>>, <<1>>, <<2>>, <<1, 2>>, <<2, 1>>}

EvalGroup(status, cfg, status_time, prx) ==
    [status |-> status, status_time |-> status_time, flags |-> {},
     failover_delay |-> cfg.failover_delay, min_online |-> cfg.min_online,
     revision |-> 1, proxies |-> prx]

EvalProxy(g, status, firstaccess) ==
    [group |-> g, status |-> status, lastaccess |-> 1, firstaccess |-> firstaccess]

GroupOf(layout, p) == CHOOSE g \in GroupIds : p \in Range(layout[g])

\* the variables of the main loop, which the evaluations leave alone
InitEvalRest ==
    /\ relocated_proxies = <<>>
    /\ group_revision = 1
    /\ time_update = Now
    /\ time_now = Now
    /\ running = TRUE
    /\ pc = "eval_first"
    /\ steps = <<>>
    /\ updated = FALSE
    /\ ipc_events = 0
    /\ ext_init

\* caches that exercise the group status machine: group 1 in any status and
\* configuration, the proxies ONLINE or not (an ONLINE proxy was first seen long
\* ago, another one has not been seen yet)
InitEvalGroups ==
    /\ \E layout \in EvalLayouts, st1 \in GroupStatuses, cfg1 \in EvalConfigs,
          t1 \in {1, Now - 1},
          st2 \in {ZBX_PG_GROUP_STATUS_ONLINE, ZBX_PG_GROUP_STATUS_DECAY},
          ps \in [ProxyIds -> {ZBX_PG_PROXY_STATUS_UNKNOWN, ZBX_PG_PROXY_STATUS_ONLINE}] :
          /\ groups = [g \in GroupIds |->
                IF g = 1 THEN EvalGroup(st1, cfg1, t1, layout[1])
                ELSE EvalGroup(st2, [failover_delay |-> 6, min_online |-> 1], 1, layout[g])]
          /\ proxies = [p \in ProxyIds |->
                EvalProxy(GroupOf(layout, p), ps[p],
                          IF ps[p] = ZBX_PG_PROXY_STATUS_ONLINE THEN 1 ELSE 0)]
          /\ dc_proxy_group = [p \in ProxyIds |-> GroupOf(layout, p)]
    /\ group_updates \in EvalQueues
    /\ startup_time = 1
    /\ in_lastaccess = [p \in ProxyIds |-> Now]
    /\ in_junk \in JunkReads
    /\ in_order = <<1, 2>>
    /\ InitEvalRest

\* caches that exercise the proxy classification: one proxy per group, any
\* firstaccess, any reported lastaccess, a process started long ago or just now
InitEvalProxies ==
    /\ \E fd \in FailoverDelays,
          ps \in [ProxyIds -> {ZBX_PG_PROXY_STATUS_UNKNOWN, ZBX_PG_PROXY_STATUS_ONLINE}],
          fa \in [ProxyIds -> {0, 1, Now - 3}] :
          /\ groups = [g \in GroupIds |->
                EvalGroup(ZBX_PG_GROUP_STATUS_ONLINE,
                          [failover_delay |-> fd, min_online |-> 1], 1, <<g>>)]
          /\ proxies = [p \in ProxyIds |-> EvalProxy(p, ps[p], fa[p])]
          /\ dc_proxy_group = [p \in ProxyIds |-> p]
    /\ group_updates \in {<<>>, <<2>>}
    /\ startup_time \in {1, Now}
    /\ in_lastaccess \in [ProxyIds -> {1, Now - 3, Now}]
    /\ in_junk = [i \in 0..Cardinality(GroupIds) - 1 |->
                     [status |-> ZBX_PG_PROXY_STATUS_UNKNOWN, lastaccess |-> 1]]
    /\ in_order \in Orders(ProxyIds)
    /\ InitEvalRest

InitEval == InitEvalGroups \/ InitEvalProxies

\* pgm_update_status (lines 238-344), run once and then once more with the same
\* now, the same reported lastaccess and the queue as the first run left it
Evaluate ==
    /\ pc \in {"eval_first", "eval_second"}
    /\ LET c == pgm_update_status(groups, proxies, group_updates, startup_time,
                                  in_lastaccess, in_order, in_junk)
       IN  /\ groups' = c.groups
           /\ proxies' = c.proxies
           /\ group_updates' = c.group_updates
    /\ pc' = IF pc = "eval_first" THEN "eval_second" ELSE "eval_done"
    /\ UNCHANGED <<relocated_proxies, group_revision, startup_time, time_update, time_now,
                   running, steps, updated, dc_proxy_group, ipc_events>>
    /\ inputs_unchanged
    /\ ext_same

SpecEval == InitEval /\ [][Evaluate]_vars

(* ------------- pgm_db_flush_host_proxy_inserts: batches --------------- *)

\* the batch loop with every batch of full size
batch_size_m(n, i) == PGM_INSERT_BATCH_SIZE

\* lines 519-522: the size of the batch that starts at index i of n mappings
batch_size(n, i) ==
    IF PGM_INSERT_BATCH_SIZE < n - i THEN PGM_INSERT_BATCH_SIZE ELSE n - i

\* lines 482-495 by numbers: the rows the batch [start, start + size) inserts
\* when the host or the proxy of the mapping at index gone no longer exists
\* (gone = -1: all exist)
batch_rows(start, size, gone) ==
    IF start <= gone /\ gone < start + size THEN size - 1 ELSE size

\* lines 527-529: the insert prepared at line 515 holds no rows
inserts_tail_rows == 0

\* n mappings to insert, the mapping at index gone without its host or proxy
InitBatch ==
    /\ \E n \in 0..MaxNew,
          gone \in {-1, 0, PGM_INSERT_BATCH_SIZE - 1, PGM_INSERT_BATCH_SIZE} :
          /\ gone < n
          /\ bt = [n |-> n, i |-> 0, batches |-> <<>>, inserted |-> 0, gone |-> gone]
    /\ pc = "insert_batch"
    /\ groups = NoInput
    /\ proxies = NoInput
    /\ group_updates = <<>>
    /\ relocated_proxies = <<>>
    /\ group_revision = 1
    /\ startup_time = Now
    /\ time_update = Now
    /\ time_now = Now
    /\ running = TRUE
    /\ steps = <<>>
    /\ updated = FALSE
    /\ dc_proxy_group = NoInput
    /\ in_lastaccess = NoInput
    /\ in_junk = NoInput
    /\ in_order = NoInput
    /\ ipc_events = 0
    /\ hpmap = NoInput
    /\ hpmap_revision = 0
    /\ hosts_pending = NoInput
    /\ group_hosts = NoInput
    /\ proxy_hosts = NoInput
    /\ db = NoInput
    /\ tx = NoInput
    /\ snap = NoInput
    /\ dc_pub = <<>>
    /\ lk = NoInput
    /\ clock = 0
    /\ nm = NoInput
    /\ hist = NoInput
    /\ pull = NoInput
    /\ changed_groups = {}

batch_rest_same ==
    UNCHANGED <<groups, proxies, group_updates, relocated_proxies, group_revision,
                startup_time, time_update, time_now, running, steps, updated,
                dc_proxy_group, in_lastaccess, in_junk, in_order, ipc_events, hpmap,
                hpmap_revision, hosts_pending, group_hosts, proxy_hosts, db, tx, snap,
                dc_pub, lk, clock, nm, hist, pull, changed_groups>>

\* lines 517-525: one iteration of the batch loop
InsertBatch ==
    /\ pc = "insert_batch"
    /\ bt.i < bt.n
    /\ LET size == batch_size(bt.n, bt.i)
       IN  bt' = [bt EXCEPT !.batches = Append(@, [start |-> bt.i, size |-> size]),
                            !.inserted = @ + batch_rows(bt.i, size, bt.gone),
                            !.i = @ + PGM_INSERT_BATCH_SIZE]
    /\ UNCHANGED pc
    /\ batch_rest_same

\* lines 517, 527-529: the loop ends
InsertsEnd ==
    /\ pc = "insert_batch"
    /\ ~(bt.i < bt.n)
    /\ bt' = [bt EXCEPT !.inserted = @ + inserts_tail_rows]
    /\ pc' = "insert_done"
    /\ batch_rest_same

NextBatch == InsertBatch \/ InsertsEnd

SpecBatch == InitBatch /\ [][NextBatch]_vars

(* ------------------------- pgm_flush_updates -------------------------- *)

NoHost == [proxyid |-> 0]

\* the host ids of a sequence of mappings
HostsOf(hosts) == {hosts[i].hostid : i \in 1..Len(hosts)}

\* lines 351-365: the proxy_group table after the status updates
RECURSIVE pgm_db_flush_group_updates(_, _)
pgm_db_flush_group_updates(proxy_group, grps) ==
    IF grps = <<>> THEN proxy_group
    ELSE pgm_db_flush_group_updates(
             IF ZBX_PG_GROUP_UPDATE_STATUS \in Head(grps).flags
             THEN [proxy_group EXCEPT ![Head(grps).proxy_groupid] = Head(grps).status]
             ELSE proxy_group,
             Tail(grps))

\* lines 372-384: host_proxy after the updates of the modified mappings
RECURSIVE pgm_db_flush_host_proxy_updates(_, _)
pgm_db_flush_host_proxy_updates(rows, hosts) ==
    IF hosts = <<>> THEN rows
    ELSE pgm_db_flush_host_proxy_updates(
             [i \in 1..Len(rows) |->
                 IF rows[i].hostid = Head(hosts).hostid
                 THEN [rows[i] EXCEPT !.proxyid = Head(hosts).proxyid,
                                      !.revision = Head(hosts).revision]
                 ELSE rows[i]],
             Tail(hosts))

\* the delete statement left out
pgm_db_flush_host_proxy_deletes_m(rows, hosts) == rows

\* lines 391-413: host_proxy after the delete of the removed mappings
pgm_db_flush_host_proxy_deletes(rows, hosts) ==
    SelectSeq(rows, LAMBDA r : r.hostid \notin HostsOf(hosts))

\* lines 458-503: host_proxy after the insert of a batch, the rows whose host
\* or proxy is gone from the tables hosts and proxy left out
pgm_db_flush_host_proxy_insert_batch(rows, hosts, db_hosts, db_proxy) ==
    rows \o SelectSeq(hosts, LAMBDA h : h.hostid \in db_hosts /\ h.proxyid \in db_proxy)

\* lines 517-525: the batches from index i on
RECURSIVE insert_batches(_, _, _, _, _)
insert_batches(rows, hosts, i, db_hosts, db_proxy) ==
    IF ~(i < Len(hosts)) THEN rows
    ELSE insert_batches(
             pgm_db_flush_host_proxy_insert_batch(rows,
                 SubSeq(hosts, i + 1, i + batch_size(Len(hosts), i)), db_hosts, db_proxy),
             hosts, i + PGM_INSERT_BATCH_SIZE, db_hosts, db_proxy)

\* lines 510-532
pgm_db_flush_host_proxy_inserts(rows, hosts, db_hosts, db_proxy) ==
    insert_batches(rows, hosts, 0, db_hosts, db_proxy)

\* lines 539-562: the row of ids, inserted or updated
pgm_db_flush_host_proxy_revision(nextid, revision) == revision

\* lines 569-584: the call of zbx_dc_update_group_hpmap_revision
pgm_dc_flush_host_proxy_revision(grps, revision) ==
    LET flagged == SelectSeq(grps, LAMBDA g : ZBX_PG_GROUP_UPDATE_HP_MAP \in g.flags)
    IN  [groupids |-> [i \in 1..Len(flagged) |-> flagged[i].proxy_groupid],
         revision |-> revision]

\* line 636 with any result of the commit taken for a success
commit_ok_m(ret) == TRUE

\* line 636: ZBX_DB_OK <= ret
commit_ok(ret) == ret = "OK"

\* pg_cache_get_updates: what pgm_flush_updates receives
updates_snapshot(grps, gu, pending) ==
    [groups |-> [i \in 1..Len(gu) |->
                    [proxy_groupid |-> gu[i], status |-> grps[gu[i]].status,
                     flags |-> grps[gu[i]].flags]],
     hosts_new |-> pending.new, hosts_mod |-> pending.mod, hosts_del |-> pending.del]

NoPending == [new |-> <<>>, mod |-> <<>>, del |-> <<>>]

\* pg_cache_set_host_proxy(hostid, proxyid) with proxyid # 0: the mapping is
\* created or changed under the next hpmap_revision, the group of the proxy is
\* marked UPDATE_HP_MAP and queued
set_host_proxy(c, hostid, proxyid) ==
    LET mapping == [hostid |-> hostid, proxyid |-> proxyid,
                    revision |-> c.hpmap_revision + 1]
        g == c.proxies[proxyid].group
    IN  [c EXCEPT !.hpmap[hostid] = mapping,
                  !.hpmap_revision = @ + 1,
                  !.hosts_pending = IF c.hpmap[hostid] = NoHost
                                    THEN [@ EXCEPT !.new = Append(@, mapping)]
                                    ELSE [@ EXCEPT !.mod = Append(@, mapping)],
                  !.groups[g].flags = @ \cup {ZBX_PG_GROUP_UPDATE_HP_MAP},
                  !.group_updates = pg_cache_queue_group_update(@, g)]

\* pg_cache_set_host_proxy(hostid, 0): the mapping is removed and its delete queued
unset_host_proxy(c, hostid) ==
    [c EXCEPT !.hosts_pending.del =
                  Append(@, [hostid |-> hostid, proxyid |-> 0, revision |-> 0]),
              !.hpmap[hostid] = NoHost]

\* host_proxy as the last flush left it
FlushTables ==
    {<<>>,
     <<[hostid |-> 1, proxyid |-> 1, revision |-> 1]>>,
     <<[hostid |-> 1, proxyid |-> 1, revision |-> 1],
       [hostid |-> 2, proxyid |-> 1, revision |-> 2]>>}

\* one tick with its flush: the cache agrees with the database, group 1 holds
\* both proxies and is queued or not, nothing is pending yet
InitFlush ==
    /\ \E st1 \in {ZBX_PG_GROUP_STATUS_UNKNOWN, ZBX_PG_GROUP_STATUS_ONLINE},
          ps2 \in {ZBX_PG_PROXY_STATUS_UNKNOWN, ZBX_PG_PROXY_STATUS_ONLINE},
          rows \in FlushTables, hosts \in {{1}, HostIds} :
          /\ HostsOf(rows) \subseteq hosts
          /\ groups = [g \in GroupIds |->
                IF g = 1
                THEN EvalGroup(st1, [failover_delay |-> 6, min_online |-> 1], 1, <<1, 2>>)
                ELSE EvalGroup(ZBX_PG_GROUP_STATUS_ONLINE,
                               [failover_delay |-> 6, min_online |-> 0], 1, <<>>)]
          /\ proxies = [p \in ProxyIds |->
                EvalProxy(1, IF p = 1 THEN ZBX_PG_PROXY_STATUS_ONLINE ELSE ps2, 1)]
          /\ hpmap = [h \in HostIds |->
                IF \E i \in 1..Len(rows) : rows[i].hostid = h
                THEN rows[CHOOSE i \in 1..Len(rows) : rows[i].hostid = h]
                ELSE NoHost]
          /\ hpmap_revision = Len(rows)
          /\ db = [host_proxy |-> rows,
                   nextid |-> IF rows = <<>> THEN -1 ELSE Len(rows),
                   hosts |-> hosts, proxy |-> ProxyIds,
                   proxy_group |-> [g \in GroupIds |-> ZBX_PG_GROUP_STATUS_ONLINE]]
    /\ group_updates \in {<<>>, <<1>>, <<2, 1>>}
    /\ hosts_pending = NoPending
    /\ tx = [open |-> FALSE, ret |-> "none", downs |-> 0, bodies |-> 0]
    /\ snap = NoInput
    /\ dc_pub = <<>>
    /\ changed_groups = {}
    /\ dc_proxy_group = [p \in ProxyIds |-> 1]
    /\ relocated_proxies = <<>>
    /\ group_revision = MaxRevision
    /\ startup_time = 1
    /\ time_update = Now - 1
    /\ time_now = Now - 1
    /\ running = TRUE
    /\ pc = "head"
    /\ steps = <<>>
    /\ updated = TRUE
    /\ in_lastaccess = NoInput
    /\ in_junk = NoInput
    /\ in_order = NoInput
    /\ ipc_events = 0
    /\ group_hosts = NoInput
    /\ proxy_hosts = NoInput
    /\ bt = NoInput
    /\ lk = NoInput
    /\ clock = 0
    /\ nm = NoInput
    /\ hist = NoInput
    /\ pull = NoInput

flush_rest_same ==
    UNCHANGED <<proxies, relocated_proxies, group_revision, startup_time, time_update,
                time_now, running, steps, updated, dc_proxy_group, in_lastaccess, in_junk,
                in_order, ipc_events, group_hosts, proxy_hosts, bt, lk, clock,
                nm, hist, pull>>

\* a host gets a proxy, another proxy or none while the tick is under way
\* (pg_cache_set_host_proxy), before its flush drains the cache
SetHostProxy ==
    /\ pc \in {"head", "update_groups", "update_status", "update_proxies", "sleep", "flush"}
    /\ Len(hosts_pending.new) + Len(hosts_pending.mod) + Len(hosts_pending.del) < MaxAssign
    /\ \E h \in HostIds, p \in CachedProxies(proxies) \cup {0} :
          /\ h \notin HostsOf(hosts_pending.new) \cup HostsOf(hosts_pending.mod)
                         \cup HostsOf(hosts_pending.del)
          /\ p # hpmap[h].proxyid
          /\ LET c0 == [groups |-> groups, proxies |-> proxies,
                        group_updates |-> group_updates, hpmap |-> hpmap,
                        hpmap_revision |-> hpmap_revision,
                        hosts_pending |-> hosts_pending]
                 c == IF p = 0 THEN unset_host_proxy(c0, h) ELSE set_host_proxy(c0, h, p)
             IN  /\ groups' = c.groups
                 /\ group_updates' = c.group_updates
                 /\ hpmap' = c.hpmap
                 /\ hpmap_revision' = c.hpmap_revision
                 /\ hosts_pending' = c.hosts_pending
                 /\ changed_groups' = IF p = 0 THEN changed_groups
                                      ELSE changed_groups \cup {proxies[p].group}
    /\ UNCHANGED <<pc, db, tx, snap, dc_pub>>
    /\ flush_rest_same

\* lines 838, 598-606: the flush is entered when group_updates is not empty and
\* drains the cache
FlushDrain ==
    /\ pc = "flush"
    /\ IF 0 # Len(group_updates)
       THEN LET c == pg_cache_get_updates(groups, group_updates)
            IN  /\ snap' = updates_snapshot(groups, group_updates, hosts_pending)
                /\ groups' = c.groups
                /\ group_updates' = c.group_updates
                /\ hosts_pending' = NoPending
                /\ pc' = "flush_body"
       ELSE /\ UNCHANGED <<snap, groups, group_updates, hosts_pending>>
            /\ pc' = "tick_done"
    /\ UNCHANGED <<hpmap, hpmap_revision, changed_groups, db, tx, dc_pub>>
    /\ flush_rest_same

\* lines 612-631: the body of the transaction
FlushBody ==
    /\ pc = "flush_body"
    /\ LET updated_rows == pgm_db_flush_host_proxy_updates(db.host_proxy, snap.hosts_mod)
           kept_rows == pgm_db_flush_host_proxy_deletes(updated_rows, snap.hosts_del)
       IN  tx' = [open |-> TRUE, ret |-> "none", downs |-> tx.downs,
                  bodies |-> tx.bodies + 1,
                  proxy_group |-> pgm_db_flush_group_updates(db.proxy_group, snap.groups),
                  host_proxy |-> pgm_db_flush_host_proxy_inserts(kept_rows,
                                     snap.hosts_new, db.hosts, db.proxy),
                  nextid |-> pgm_db_flush_host_proxy_revision(db.nextid, hpmap_revision)]
    /\ pc' = "flush_commit"
    /\ UNCHANGED <<groups, group_updates, hpmap, hpmap_revision, hosts_pending,
                   changed_groups, db, snap, dc_pub>>
    /\ flush_rest_same

\* line 634: zbx_db_commit() succeeds, reports the database down and the body
\* is run again, or fails
FlushCommit ==
    /\ pc = "flush_commit"
    /\ \/ /\ db' = [db EXCEPT !.host_proxy = tx.host_proxy, !.nextid = tx.nextid,
                              !.proxy_group = tx.proxy_group]
          /\ tx' = [tx EXCEPT !.open = FALSE, !.ret = "OK"]
          /\ pc' = "flush_after"
       \/ /\ tx.downs < MaxDown
          /\ tx' = [tx EXCEPT !.open = FALSE, !.ret = "DOWN", !.downs = @ + 1]
          /\ pc' = "flush_body"
          /\ UNCHANGED db
       \/ /\ tx' = [tx EXCEPT !.open = FALSE, !.ret = "FAIL"]
          /\ pc' = "flush_after"
          /\ UNCHANGED db
    /\ UNCHANGED <<groups, group_updates, hpmap, hpmap_revision, hosts_pending,
                   changed_groups, snap, dc_pub>>
    /\ flush_rest_same

\* lines 636-651: the revision is published after a successful commit and the
\* drained vectors are destroyed
FlushPublish ==
    /\ pc = "flush_after"
    /\ dc_pub' = IF commit_ok(tx.ret)
                 THEN Append(dc_pub, pgm_dc_flush_host_proxy_revision(snap.groups,
                                                                      hpmap_revision))
                 ELSE dc_pub
    /\ pc' = "tick_done"
    /\ UNCHANGED <<groups, group_updates, hpmap, hpmap_revision, hosts_pending,
                   changed_groups, db, tx, snap>>
    /\ flush_rest_same

NextFlush ==
    \/ LoopHead
    \/ UpdateGroups
    \/ UpdateStatus
    \/ UpdateProxies
    \/ Sleep
    \/ SetHostProxy
    \/ FlushDrain
    \/ FlushBody
    \/ FlushCommit
    \/ FlushPublish

SpecFlush == InitFlush /\ [][NextFlush]_vars

\* the IPC service thread runs pg_cache_set_host_proxy while the flush is inside
\* its transaction: lines 612-637 hold no lock, and lines 631 and 637 read
\* cache->hpmap_revision each on its own
IpcSetHostProxy ==
    /\ pc \in {"flush_body", "flush_commit", "flush_after"}
    /\ Len(hosts_pending.new) + Len(hosts_pending.mod) + Len(hosts_pending.del) < MaxAssign
    /\ \E h \in HostIds, p \in CachedProxies(proxies) :
          /\ h \notin HostsOf(hosts_pending.new) \cup HostsOf(hosts_pending.mod)
                         \cup HostsOf(hosts_pending.del)
          /\ p # hpmap[h].proxyid
          /\ LET c == set_host_proxy([groups |-> groups, proxies |-> proxies,
                                      group_updates |-> group_updates, hpmap |-> hpmap,
                                      hpmap_revision |-> hpmap_revision,
                                      hosts_pending |-> hosts_pending], h, p)
             IN  /\ groups' = c.groups
                 /\ group_updates' = c.group_updates
                 /\ hpmap' = c.hpmap
                 /\ hpmap_revision' = c.hpmap_revision
                 /\ hosts_pending' = c.hosts_pending
                 /\ changed_groups' = changed_groups \cup {proxies[p].group}
    /\ UNCHANGED <<pc, db, tx, snap, dc_pub>>
    /\ flush_rest_same

NextFlushIpc ==
    \/ NextFlush
    \/ IpcSetHostProxy

SpecFlushIpc == InitFlush /\ [][NextFlushIpc]_vars

(* ------------------- pgm_update_proxies on a queue -------------------- *)

\* what the IPC service thread may queue for a proxy
RelocEvents ==
    {[objid |-> p, srcid |-> src, dstid |-> dst] :
        p \in ProxyIds, src \in GroupIds \cup {0}, dst \in GroupIds \cup {0}}
    \ {[objid |-> p, srcid |-> g, dstid |-> g] : p \in ProxyIds, g \in GroupIds \cup {0}}

\* the queues of at most MaxQueue events
RelocQueues ==
    UNION {[1..n -> RelocEvents] : n \in 1..MaxQueue}

\* lines 827-831: the loop has reached the relocator with events in the queue
InitReloc ==
    /\ \E assign \in [ProxyIds -> GroupIds \cup {0}] :
          /\ groups = [g \in GroupIds |-> BootGroup(6, 1, Members(assign, g, <<1, 2>>))]
          /\ proxies = [p \in ProxyIds |->
                           IF assign[p] = 0 THEN NoProxy ELSE BootProxy(assign[p])]
          /\ dc_proxy_group = assign
    /\ relocated_proxies \in RelocQueues
    /\ group_updates = <<>>
    /\ group_revision = 1
    /\ startup_time = Now
    /\ time_update = Now
    /\ time_now = Now
    /\ running = TRUE
    /\ pc = "update_proxies"
    /\ steps = <<>>
    /\ updated = TRUE
    /\ in_lastaccess = NoInput
    /\ in_junk = NoInput
    /\ in_order = NoInput
    /\ ipc_events = Len(relocated_proxies)
    /\ ext_init

NextReloc == UpdateProxies

SpecReloc == InitReloc /\ [][NextReloc]_vars

(* --------------------------- the cache lock --------------------------- *)

\* the steps of the manager thread once the IPC service runs (line 796): the
\* source line of the step, whether it takes or gives up the cache lock,
\* whether it reads or writes the cache, whether it calls the database or sleeps
Point(line, lock, cache, io, fn) ==
    [line |-> line, lock |-> lock, cache |-> cache, io |-> io, fn |-> fn]

Program ==
    [boot_groups    |-> Point(803, "none", TRUE, FALSE, "bootstrap"),
     boot_hosts     |-> Point(804, "none", TRUE, TRUE, "bootstrap"),
     boot_proxies   |-> Point(805, "none", TRUE, TRUE, "bootstrap"),
     boot_hpmap     |-> Point(806, "none", TRUE, TRUE, "bootstrap"),
     loop_head      |-> Point(816, "none", FALSE, FALSE, "loop"),
     groups_sync    |-> Point(824, "none", TRUE, FALSE, "pgm_update_groups"),
     status_lock    |-> Point(240, "acquire", FALSE, FALSE, "pgm_update_status"),
     status_eval    |-> Point(242, "none", TRUE, FALSE, "pgm_update_status"),
     status_unlock  |-> Point(343, "release", FALSE, FALSE, "pgm_update_status"),
     reloc_check    |-> Point(831, "none", TRUE, FALSE, "loop"),
     proxies_lock   |-> Point(697, "acquire", FALSE, FALSE, "pgm_update_proxies"),
     proxies_scan   |-> Point(699, "none", TRUE, FALSE, "pgm_update_proxies"),
     names_unlock   |-> Point(712, "release", FALSE, FALSE, "pgm_update_proxies"),
     names_query    |-> Point(717, "none", FALSE, TRUE, "pgm_update_proxies"),
     names_lock     |-> Point(719, "acquire", FALSE, FALSE, "pgm_update_proxies"),
     proxies_apply  |-> Point(722, "none", TRUE, FALSE, "pgm_update_proxies"),
     proxies_unlock |-> Point(768, "release", FALSE, FALSE, "pgm_update_proxies"),
     sleep          |-> Point(834, "none", FALSE, TRUE, "loop"),
     updates_check  |-> Point(838, "none", TRUE, FALSE, "loop"),
     updates_lock   |-> Point(603, "acquire", FALSE, FALSE, "pgm_flush_updates"),
     updates_drain  |-> Point(603, "none", TRUE, FALSE, "pgm_flush_updates"),
     updates_unlock |-> Point(603, "release", FALSE, FALSE, "pgm_flush_updates"),
     flush_sql      |-> Point(616, "none", FALSE, TRUE, "pgm_flush_updates"),
     flush_revision |-> Point(631, "none", TRUE, TRUE, "pgm_flush_updates"),
     flush_commit   |-> Point(634, "none", FALSE, TRUE, "pgm_flush_updates"),
     flush_publish  |-> Point(637, "none", TRUE, FALSE, "pgm_flush_updates")]

\* pgm_update_proxies keeps the lock over the query of the names
point_lock_m(p) == IF p = "names_unlock" THEN "none" ELSE Program[p].lock

\* pg_cache_lock and pg_cache_unlock at lines 240, 343, 697, 712, 719 and 768,
\* and the ones inside pg_cache_get_updates
point_lock(p) == Program[p].lock

\* lines 699-707: whether an event of the queue names a proxy that is not cached
names_needed(prx, queue) ==
    \E i \in 1..Len(queue) : queue[i].dstid # 0 /\ prx[queue[i].objid] = NoProxy

\* the step that follows step p
point_next(p) ==
    CASE p = "boot_groups" -> "boot_hosts"
      [] p = "boot_hosts" -> "boot_proxies"
      [] p = "boot_proxies" -> "boot_hpmap"
      [] p = "boot_hpmap" -> "loop_head"
      [] p = "loop_head" -> IF update_due(time_update, Now) THEN "groups_sync"
                            ELSE "reloc_check"
      [] p = "groups_sync" -> "status_lock"
      [] p = "status_lock" -> "status_eval"
      [] p = "status_eval" -> "status_unlock"
      [] p = "status_unlock" -> "reloc_check"
      [] p = "reloc_check" -> IF 0 # Len(relocated_proxies) THEN "proxies_lock" ELSE "sleep"
      [] p = "proxies_lock" -> "proxies_scan"
      [] p = "proxies_scan" -> IF names_needed(proxies, relocated_proxies)
                               THEN "names_unlock" ELSE "proxies_apply"
      [] p = "names_unlock" -> "names_query"
      [] p = "names_query" -> "names_lock"
      [] p = "names_lock" -> "proxies_apply"
      [] p = "proxies_apply" -> "proxies_unlock"
      [] p = "proxies_unlock" -> "sleep"
      [] p = "sleep" -> "updates_check"
      [] p = "updates_check" -> IF 0 # Len(group_updates) THEN "updates_lock"
                                ELSE "loop_head"
      [] p = "updates_lock" -> "updates_drain"
      [] p = "updates_drain" -> "updates_unlock"
      [] p = "updates_unlock" -> "flush_sql"
      [] p = "flush_sql" -> "flush_revision"
      [] p = "flush_revision" -> "flush_commit"
      [] p = "flush_publish" -> "loop_head"

\* only the first event of the queue is visited
reloc_events_m(queue) == SubSeq(queue, 1, 1)

\* lines 722-724: the events the loop of the relocator visits, all of
\* cache->relocated_proxies as it is after the lock was taken again
reloc_events(queue) == queue

\* the caches the bootstrap may leave: both proxies in groups, or proxy 2 in none
LockAssigns == BootAssigns \cup {<<1, 0>>}

\* the lock and the record of the step after the manager thread ran step p
lock_after(l, p) ==
    [holder |-> CASE point_lock(p) = "acquire" -> "manager"
                  [] point_lock(p) = "release" -> "none"
                  [] OTHER -> l.holder,
     at |-> p,
     cache |-> Program[p].cache,
     io |-> Program[p].io,
     held |-> l.holder = "manager"]

\* the manager thread runs step p: pg_cache_lock waits until the lock is free
Runs(p) ==
    /\ pc = p
    /\ point_lock(p) = "acquire" => lk.holder = "none"
    /\ lk' = lock_after(lk, p)

\* line 796: pg_service_init has started the IPC service thread, the cache is
\* as pgm_init left it
InitLock ==
    /\ groups \in {[g \in GroupIds |-> BootGroup(6, mo, <<>>)] : mo \in 1..MaxMinOnline}
    /\ proxies = [p \in ProxyIds |-> NoProxy]
    /\ dc_proxy_group = [p \in ProxyIds |-> 0]
    /\ group_updates = <<>>
    /\ relocated_proxies = <<>>
    /\ group_revision = 0
    /\ startup_time = Now
    /\ time_update = 0
    /\ time_now = 0
    /\ running = TRUE
    /\ pc = "boot_groups"
    /\ steps = <<>>
    /\ updated = FALSE
    /\ in_lastaccess = NoInput
    /\ in_junk = NoInput
    /\ in_order = NoInput
    /\ ipc_events = 0
    /\ hpmap = NoInput
    /\ hpmap_revision = 0
    /\ hosts_pending = NoInput
    /\ group_hosts = NoInput
    /\ proxy_hosts = NoInput
    /\ db = NoInput
    /\ tx = [ret |-> "none", downs |-> 0]
    /\ snap = NoInput
    /\ dc_pub = <<>>
    /\ bt = NoInput
    /\ clock = 0
    /\ nm = NoInput
    /\ hist = [queued |-> <<>>, applied |-> <<>>]
    /\ pull = NoInput
    /\ changed_groups = {}
    /\ lk = [holder |-> "none", at |-> "pg_service_init", cache |-> FALSE, io |-> FALSE,
             held |-> FALSE]

lock_rest_same ==
    UNCHANGED <<startup_time, running, steps, updated, in_lastaccess, in_junk, in_order,
                hpmap, hpmap_revision, hosts_pending, group_hosts, proxy_hosts, db, snap,
                dc_pub, bt, clock, pull, changed_groups>>

\* lines 803-806: pgm_update_groups queues every group, pgm_db_get_proxies
\* loads the proxies of the groups
LockBootstrap ==
    /\ \E p \in {"boot_groups", "boot_hosts", "boot_proxies", "boot_hpmap"} :
          /\ Runs(p)
          /\ pc' = point_next(p)
          /\ CASE p = "boot_groups" ->
                    /\ group_revision' = 1
                    /\ group_updates' = queue_revised(group_updates, groups, group_revision,
                                                      <<1, 2>>)
                    /\ UNCHANGED <<groups, proxies, dc_proxy_group>>
               [] p = "boot_proxies" ->
                    \E assign \in LockAssigns :
                       /\ groups' = [g \in GroupIds |->
                             [groups[g] EXCEPT !.proxies = Members(assign, g, <<1, 2>>)]]
                       /\ proxies' = [q \in ProxyIds |->
                             IF assign[q] = 0 THEN NoProxy ELSE BootProxy(assign[q])]
                       /\ dc_proxy_group' = [q \in ProxyIds |-> assign[q]]
                       /\ UNCHANGED <<group_updates, group_revision>>
               [] OTHER ->
                    UNCHANGED <<groups, proxies, dc_proxy_group, group_updates,
                                group_revision>>
    /\ UNCHANGED <<relocated_proxies, time_update, time_now, ipc_events, tx>>
    /\ lock_rest_same
    /\ UNCHANGED nm
    /\ UNCHANGED hist

\* lines 816-822 and the tests of lines 831 and 838
LockLoop ==
    /\ \E p \in {"loop_head", "reloc_check", "updates_check"} :
          /\ Runs(p)
          /\ pc' = point_next(p)
          /\ time_now' = IF p = "loop_head" THEN Now ELSE time_now
    /\ UNCHANGED <<groups, proxies, dc_proxy_group, group_updates, group_revision,
                   relocated_proxies, time_update, ipc_events, tx>>
    /\ lock_rest_same
    /\ UNCHANGED nm
    /\ UNCHANGED hist

\* line 824, pgm_update_groups (lines 57-82): the configuration cache reports
\* no change
LockUpdateGroups ==
    /\ Runs("groups_sync")
    /\ pc' = point_next("groups_sync")
    /\ UNCHANGED <<groups, proxies, dc_proxy_group, group_updates, group_revision,
                   relocated_proxies, time_update, time_now, ipc_events, tx>>
    /\ lock_rest_same
    /\ UNCHANGED nm
    /\ UNCHANGED hist

\* lines 826-828, pgm_update_status (lines 238-344) and time_update = time_now
LockUpdateStatus ==
    /\ \E p \in {"status_lock", "status_eval", "status_unlock"} :
          /\ Runs(p)
          /\ pc' = point_next(p)
          /\ IF p = "status_eval"
             THEN \E la \in LastaccessReports, junk \in JunkReads :
                     LET c == pgm_update_status(groups, proxies, group_updates,
                                                startup_time, la, <<1, 2>>, junk)
                     IN  /\ groups' = c.groups
                         /\ proxies' = c.proxies
                         /\ group_updates' = c.group_updates
             ELSE UNCHANGED <<groups, proxies, group_updates>>
          /\ time_update' = IF p = "status_unlock" THEN time_now ELSE time_update
    /\ UNCHANGED <<dc_proxy_group, group_revision, relocated_proxies, time_now,
                   ipc_events, tx>>
    /\ lock_rest_same
    /\ UNCHANGED nm
    /\ UNCHANGED hist

\* line 832, pgm_update_proxies (lines 689-773)
LockUpdateProxies ==
    /\ \E p \in {"proxies_lock", "proxies_scan", "names_unlock", "names_query",
                 "names_lock", "proxies_apply", "proxies_unlock"} :
          /\ Runs(p)
          /\ pc' = point_next(p)
          /\ IF p = "proxies_apply"
             THEN LET c == relocate_all(Cache, reloc_events(relocated_proxies))
                  IN  /\ groups' = c.groups
                      /\ proxies' = c.proxies
                      /\ group_updates' = c.group_updates
                      /\ relocated_proxies' = <<>>
                      /\ hist' = [hist EXCEPT
                                     !.applied = @ \o reloc_events(relocated_proxies)]
             ELSE UNCHANGED <<groups, proxies, group_updates, relocated_proxies, hist>>
          /\ nm' = IF p = "proxies_scan"
                   THEN [scanned |-> Len(relocated_proxies), applied |-> Len(hist.applied)]
                   ELSE nm
    /\ UNCHANGED <<dc_proxy_group, group_revision, time_update, time_now, ipc_events, tx>>
    /\ lock_rest_same

\* line 834: zbx_sleep_loop(info, 1)
LockSleep ==
    /\ Runs("sleep")
    /\ pc' = point_next("sleep")
    /\ UNCHANGED <<groups, proxies, dc_proxy_group, group_updates, group_revision,
                   relocated_proxies, time_update, time_now, ipc_events, tx>>
    /\ lock_rest_same
    /\ UNCHANGED nm
    /\ UNCHANGED hist

\* line 839, pgm_flush_updates (lines 591-652): pg_cache_get_updates drains the
\* queue in one locked call, the transaction runs until the commit does not
\* report the database down
LockFlush ==
    /\ \E p \in {"updates_lock", "updates_drain", "updates_unlock", "flush_sql",
                 "flush_revision", "flush_commit", "flush_publish"} :
          /\ Runs(p)
          /\ IF p = "updates_drain"
             THEN LET c == pg_cache_get_updates(groups, group_updates)
                  IN  /\ groups' = c.groups
                      /\ group_updates' = c.group_updates
             ELSE UNCHANGED <<groups, group_updates>>
          /\ IF p = "flush_commit"
             THEN \/ /\ tx' = [tx EXCEPT !.ret = "OK"]
                     /\ pc' = "flush_publish"
                  \/ /\ tx.downs < MaxDown
                     /\ tx' = [tx EXCEPT !.ret = "DOWN", !.downs = @ + 1]
                     /\ pc' = "flush_sql"
                  \/ /\ tx' = [tx EXCEPT !.ret = "FAIL"]
                     /\ pc' = "loop_head"
             ELSE /\ pc' = point_next(p)
                  /\ tx' = IF p = "updates_lock" THEN [ret |-> "none", downs |-> 0] ELSE tx
    /\ UNCHANGED <<proxies, dc_proxy_group, group_revision, relocated_proxies,
                   time_update, time_now, ipc_events>>
    /\ lock_rest_same
    /\ UNCHANGED nm
    /\ UNCHANGED hist

\* the IPC service thread takes the cache lock
IpcLock ==
    /\ lk.holder = "none"
    /\ lk' = [lk EXCEPT !.holder = "ipc"]
    /\ UNCHANGED <<groups, proxies, dc_proxy_group, group_updates, group_revision,
                   relocated_proxies, time_update, time_now, ipc_events, tx, pc>>
    /\ lock_rest_same
    /\ UNCHANGED nm
    /\ UNCHANGED hist

\* the IPC service thread, holding the lock, reads the cache or queues the
\* relocation of a proxy, and gives the lock up
IpcQueue ==
    /\ lk.holder = "ipc"
    /\ lk' = [lk EXCEPT !.holder = "none"]
    /\ \/ UNCHANGED <<relocated_proxies, dc_proxy_group, ipc_events, hist>>
       \/ /\ Len(relocated_proxies) < MaxQueue
          /\ ipc_events < MaxEvents
          /\ ipc_events' = ipc_events + 1
          /\ \E p \in ProxyIds, dst \in GroupIds \cup {0} :
                LET reloc == [objid |-> p, srcid |-> dc_proxy_group[p], dstid |-> dst]
                IN  /\ dst # dc_proxy_group[p]
                    /\ relocated_proxies' = Append(relocated_proxies, reloc)
                    /\ hist' = [hist EXCEPT !.queued = Append(@, reloc)]
                    /\ dc_proxy_group' = [dc_proxy_group EXCEPT ![p] = dst]
    /\ UNCHANGED <<groups, proxies, group_updates, group_revision, time_update, time_now,
                   tx, pc>>
    /\ lock_rest_same
    /\ UNCHANGED nm

NextLock ==
    \/ LockBootstrap
    \/ LockLoop
    \/ LockUpdateGroups
    \/ LockUpdateStatus
    \/ LockUpdateProxies
    \/ LockSleep
    \/ LockFlush
    \/ IpcLock
    \/ IpcQueue

SpecLock == InitLock /\ [][NextLock]_vars

(* ------------------------ pgm_get_proxy_names ------------------------- *)

\* the name a row of the proxy table holds, a NULL pointer, the empty string
NameOf(p) == <<"name", p>>
NullName == "NULL"
EmptyName == ""

\* lines 675-680: NULL is appended for every id before proxyid; out tells
\* that the end of proxyids was reached (goto out)
RECURSIVE names_skip(_, _, _, _)
names_skip(proxyids, names, i, proxyid) ==
    IF proxyids[i + 1] # proxyid
    THEN IF i + 1 = Len(proxyids)
         THEN [names |-> Append(names, NullName), i |-> i + 1, out |-> TRUE]
         ELSE names_skip(proxyids, Append(names, NullName), i + 1, proxyid)
    ELSE [names |-> names, i |-> i, out |-> FALSE]

\* lines 669-684: the names of the rows the select returns, in the order of
\* proxyids; i is the index into proxyids
RECURSIVE pgm_get_proxy_names(_, _, _, _)
pgm_get_proxy_names(proxyids, rows, names, i) ==
    IF rows # <<>> /\ i < Len(proxyids)
    THEN LET skipped == names_skip(proxyids, names, i, Head(rows).proxyid)
         IN  IF skipped.out THEN skipped.names
             ELSE pgm_get_proxy_names(proxyids, Tail(rows),
                      Append(skipped.names, Head(rows).name), skipped.i + 1)
    ELSE names

\* lines 746-752: zbx_vector_uint64_search, the index of objid in proxyids or FAIL
names_search(proxyids, objid) ==
    IF \E j \in 1..Len(proxyids) : proxyids[j] = objid
    THEN (CHOOSE j \in 1..Len(proxyids) : proxyids[j] = objid) - 1
    ELSE -1

\* what names.values[j] may read past the end of the vector
JunkNames == {NullName, EmptyName, "junk"}

\* lines 746-752: the names a created proxy may get
names_pick(proxyids, names, objid) ==
    LET j == names_search(proxyids, objid)
    IN  IF j = -1 THEN {EmptyName}
        ELSE IF j < Len(names) THEN {names[j + 1]}
        ELSE JunkNames

\* the ids of S in ascending order (lines 714-715: sort and uniq)
RECURSIVE SortedIds(_)
SortedIds(S) ==
    IF S = {} THEN <<>>
    ELSE LET lo == CHOOSE x \in S : \A y \in S : x <= y
         IN  <<lo>> \o SortedIds(S \ {lo})

NameIds == 1..MaxNames

\* line 712: the relocator has collected the ids of the proxies to create; the
\* proxy table holds rows for some of them
InitNames ==
    /\ \E ids \in SUBSET NameIds, found \in SUBSET NameIds :
          /\ ids # {}
          /\ found \subseteq ids
          /\ nm = [proxyids |-> SortedIds(ids),
                   rows |-> [j \in 1..Cardinality(found) |->
                                [proxyid |-> SortedIds(found)[j],
                                 name |-> NameOf(SortedIds(found)[j])]],
                   names |-> <<>>,
                   given |-> [p \in NameIds |-> "none"],
                   k |-> 0]
    /\ pc = "names_query"
    /\ groups = NoInput
    /\ proxies = NoInput
    /\ group_updates = <<>>
    /\ relocated_proxies = <<>>
    /\ group_revision = 1
    /\ startup_time = Now
    /\ time_update = Now
    /\ time_now = Now
    /\ running = TRUE
    /\ steps = <<>>
    /\ updated = FALSE
    /\ dc_proxy_group = NoInput
    /\ in_lastaccess = NoInput
    /\ in_junk = NoInput
    /\ in_order = NoInput
    /\ ipc_events = 0
    /\ hpmap = NoInput
    /\ hpmap_revision = 0
    /\ hosts_pending = NoInput
    /\ group_hosts = NoInput
    /\ proxy_hosts = NoInput
    /\ db = NoInput
    /\ tx = NoInput
    /\ snap = NoInput
    /\ dc_pub = <<>>
    /\ bt = NoInput
    /\ lk = NoInput
    /\ clock = 0
    /\ hist = NoInput
    /\ pull = NoInput
    /\ changed_groups = {}

names_rest_same ==
    UNCHANGED <<groups, proxies, group_updates, relocated_proxies, group_revision,
                startup_time, time_update, time_now, running, steps, updated,
                dc_proxy_group, in_lastaccess, in_junk, in_order, ipc_events, hpmap,
                hpmap_revision, hosts_pending, group_hosts, proxy_hosts, db, tx, snap,
                dc_pub, bt, lk, clock, hist, pull, changed_groups>>

\* line 717: pgm_get_proxy_names(&proxyids, &names)
NamesQuery ==
    /\ pc = "names_query"
    /\ nm' = [nm EXCEPT !.names = pgm_get_proxy_names(nm.proxyids, nm.rows, <<>>, 0)]
    /\ pc' = "names_give"
    /\ names_rest_same

\* lines 743-754: the next proxy to create gets its name
NamesGive ==
    /\ pc = "names_give"
    /\ nm.k < Len(nm.proxyids)
    /\ LET objid == nm.proxyids[nm.k + 1]
       IN  \E name \in names_pick(nm.proxyids, nm.names, objid) :
              nm' = [nm EXCEPT !.given[objid] = name, !.k = @ + 1]
    /\ pc' = IF nm.k + 1 = Len(nm.proxyids) THEN "names_done" ELSE "names_give"
    /\ names_rest_same

NextNames ==
    \/ NamesQuery
    \/ NamesGive

SpecNames == InitNames /\ [][NextNames]_vars

(* ------------------- pgm_update_groups with removals ------------------ *)

\* what the configuration cache holds for a group at a pull: the group as
\* before, the group changed under the new revision, or no such group
PullOutcomes == [GroupIds -> {"same", "changed", "missing"}]

\* zbx_dc_get_proxy_groups: the groups of the cache after a successful pull at
\* revision r, each with its sync_revision (0: the group is gone upstream)
dc_get_proxy_groups(grps, r, outcome) ==
    [g \in GroupIds |->
        IF outcome[g] = "changed"
        THEN [group |-> IF grps[g] = NoGroup
                        THEN [BootGroup(6, 1, <<>>) EXCEPT !.revision = r]
                        ELSE [grps[g] EXCEPT !.revision = r],
              sync_revision |-> r]
        ELSE IF grps[g] = NoGroup THEN NoGroup
        ELSE [group |-> grps[g],
              sync_revision |-> IF outcome[g] = "same" THEN r ELSE 0]]

\* lines 71-72, pg_group_clear and zbx_hashset_iter_remove: the group leaves
\* the cache with the proxies of its list
group_remove(c, g) ==
    [c EXCEPT !.groups[g] = NoGroup,
              !.proxies = [p \in DOMAIN @ |->
                              IF p \in Range(c.groups[g].proxies) THEN NoProxy ELSE @[p]]]

\* the revision test of line 76 left out
sync_queue_m(gu, g, old_revision, revision) == pg_cache_queue_group_update(gu, g)

\* lines 76-79: the group is queued when its revision is above old_revision
sync_queue(gu, g, old_revision, revision) ==
    IF old_revision >= revision THEN gu ELSE pg_cache_queue_group_update(gu, g)

\* lines 67-80: the loop over the groups of the cache, in the order of the hashset
RECURSIVE sync_groups(_, _, _, _)
sync_groups(c, pulled, old_revision, order) ==
    IF order = <<>> THEN c
    ELSE LET g == Head(order)
             c1 == IF pulled[g] = NoGroup THEN c
                   ELSE IF 0 = pulled[g].sync_revision THEN group_remove(c, g)
                   ELSE [c EXCEPT !.group_updates =
                            sync_queue(@, g, old_revision, pulled[g].group.revision)]
         IN  sync_groups(c1, pulled, old_revision, Tail(order))

\* lines 57-82: the cache after group sync, ret the result of zbx_dc_get_proxy_groups
pgm_update_groups(c, ret, r, outcome, order) ==
    IF ret # "SUCCEED" THEN c
    ELSE LET pulled == dc_get_proxy_groups(c.groups, r, outcome)
             c0 == [c EXCEPT !.groups = [g \in GroupIds |->
                                  IF pulled[g] = NoGroup THEN NoGroup ELSE pulled[g].group],
                             !.group_revision = r]
         IN  sync_groups(c0, pulled, c.group_revision, order)

\* lines 803-812: the cache when the loop is entered, both groups known
InitSync ==
    /\ \E assign \in BootAssigns :
          /\ groups = [g \in GroupIds |-> BootGroup(6, 1, Members(assign, g, <<1, 2>>))]
          /\ proxies = [p \in ProxyIds |-> BootProxy(assign[p])]
          /\ dc_proxy_group = [p \in ProxyIds |-> assign[p]]
    /\ group_updates \in {<<>>, <<1>>, <<1, 2>>}
    /\ relocated_proxies = <<>>
    /\ group_revision = 1
    /\ startup_time = Now
    /\ time_update = Now
    /\ time_now = Now
    /\ running = TRUE
    /\ pc = "update_groups"
    /\ steps = <<>>
    /\ updated = FALSE
    /\ in_lastaccess = NoInput
    /\ in_junk = NoInput
    /\ in_order = NoInput
    /\ ipc_events = 0
    /\ ext_init

sync_rest_same ==
    /\ UNCHANGED <<startup_time, time_update, time_now, running, steps, updated>>
    /\ inputs_unchanged
    /\ hosts_same
    /\ lk_same
    /\ UNCHANGED <<db, tx, snap, dc_pub, bt, clock, nm, hist>>

\* line 824, pgm_update_groups: the pull fails, or succeeds at the same or at
\* the next revision
SyncGroups ==
    /\ pc = "update_groups"
    /\ \E ret \in {"SUCCEED", "FAIL"}, r \in {group_revision, group_revision + 1},
          outcome \in PullOutcomes, order \in Orders(GroupIds) :
          /\ r <= MaxRevision
          /\ ret = "FAIL" => (r = group_revision /\ \A g \in GroupIds : outcome[g] = "same")
          /\ r = group_revision => \A g \in GroupIds : outcome[g] = "same"
          /\ pull' = [ret |-> ret, revision |-> r, outcome |-> outcome]
          /\ LET c == pgm_update_groups([groups |-> groups, proxies |-> proxies,
                                         group_updates |-> group_updates,
                                         group_revision |-> group_revision],
                                        ret, r, outcome, order)
             IN  /\ groups' = c.groups
                 /\ proxies' = c.proxies
                 /\ group_updates' = c.group_updates
                 /\ group_revision' = c.group_revision
    /\ pc' = "update_proxies"
    /\ UNCHANGED <<relocated_proxies, dc_proxy_group, ipc_events>>
    /\ sync_rest_same

\* lines 831-832, pgm_update_proxies
SyncProxies ==
    /\ pc = "update_proxies"
    /\ IF 0 # Len(relocated_proxies)
       THEN LET c == relocate_all(Cache, relocated_proxies)
            IN  /\ groups' = c.groups
                /\ proxies' = c.proxies
                /\ group_updates' = c.group_updates
                /\ relocated_proxies' = <<>>
       ELSE UNCHANGED <<groups, proxies, group_updates, relocated_proxies>>
    /\ pc' = "update_groups"
    /\ UNCHANGED <<group_revision, dc_proxy_group, ipc_events, pull>>
    /\ sync_rest_same

\* the IPC service thread queues the move of a proxy to another group
SyncRelocate ==
    /\ Len(relocated_proxies) < MaxReloc
    /\ ipc_events < MaxEvents
    /\ ipc_events' = ipc_events + 1
    /\ \E p \in ProxyIds, dst \in GroupIds \cup {0} :
          /\ dst # dc_proxy_group[p]
          /\ relocated_proxies' = Append(relocated_proxies,
                 [objid |-> p, srcid |-> dc_proxy_group[p], dstid |-> dst])
          /\ dc_proxy_group' = [dc_proxy_group EXCEPT ![p] = dst]
    /\ UNCHANGED <<groups, proxies, group_updates, group_revision, pc, pull>>
    /\ sync_rest_same

NextSync ==
    \/ SyncGroups
    \/ SyncProxies
    \/ SyncRelocate

SpecSync == InitSync /\ [][NextSync]_vars

(* ----------------------------- bootstrap ------------------------------ *)

NoGroupHosts == [hostids |-> <<>>, new_hostids |-> <<>>]

\* pg_cache_group_add_proxy(cache, group, proxyid, name, clock): the proxy is
\* created unless it exists, the given time is stored in its firstaccess, and
\* it joins the proxies of the group
pg_cache_group_add_proxy(c, g, p, clk) ==
    [c EXCEPT !.proxies[p] = IF @ = NoProxy
                             THEN [group |-> g, status |-> ZBX_PG_PROXY_STATUS_UNKNOWN,
                                   lastaccess |-> 0, firstaccess |-> clk]
                             ELSE @,
              !.groups[g].proxies = Append(@, p)]

\* lines 96-111: the hosts of the groups
RECURSIVE pgm_db_get_hosts(_, _)
pgm_db_get_hosts(gh, rows) ==
    IF rows = <<>> THEN gh
    ELSE pgm_db_get_hosts(
             IF Head(rows).proxy_groupid \in DOMAIN gh
             THEN [gh EXCEPT ![Head(rows).proxy_groupid].hostids = Append(@, Head(rows).hostid)]
             ELSE gh,
             Tail(rows))

\* lines 149-150: the firstaccess of a loaded proxy after the comparison with clock
load_firstaccess(firstaccess, clk) == IF firstaccess < clk THEN clk ELSE firstaccess

\* lines 132-151: the proxies of the groups, the persisted lastaccess of each
\* stored in its firstaccess
RECURSIVE load_proxies(_, _, _)
load_proxies(c, rows, clk) ==
    IF rows = <<>> THEN c
    ELSE LET row == Head(rows)
         IN  load_proxies(
                 IF row.proxy_groupid \in DOMAIN c.groups
                 THEN LET c1 == pg_cache_group_add_proxy(c, row.proxy_groupid, row.proxyid,
                                                         row.lastaccess)
                      IN  [c1 EXCEPT !.proxies[row.proxyid].firstaccess =
                                         load_firstaccess(@, clk)]
                 ELSE c,
                 Tail(rows), clk)

\* lines 162-165: the status of a loaded proxy by its stored lastaccess
boot_classify(clk, firstaccess, failover_delay) ==
    IF clk - firstaccess >= failover_delay
    THEN ZBX_PG_PROXY_STATUS_OFFLINE
    ELSE ZBX_PG_PROXY_STATUS_ONLINE

\* line 170: the status is overwritten
boot_forced(status) == ZBX_PG_PROXY_STATUS_ONLINE

\* lines 160-171: every cached proxy gets its status and loses its firstaccess
boot_status(c, clk) ==
    [c EXCEPT !.proxies = [p \in DOMAIN @ |->
        IF @[p] = NoProxy THEN NoProxy
        ELSE [@[p] EXCEPT
                 !.status = boot_forced(boot_classify(clk, @[p].firstaccess,
                                c.groups[@[p].group].failover_delay)),
                 !.firstaccess = 0]]]

\* lines 120-172
pgm_db_get_proxies(c, rows, clk) == boot_status(load_proxies(c, rows, clk), clk)

\* lines 186-215: the mappings of the cached proxies; the mapping of an unknown
\* proxy is deleted
RECURSIVE load_hpmap(_, _)
load_hpmap(c, rows) ==
    IF rows = <<>> THEN c
    ELSE LET row == Head(rows)
         IN  load_hpmap(
                 IF c.proxies[row.proxyid] = NoProxy
                 THEN unset_host_proxy(c, row.hostid)
                 ELSE [c EXCEPT !.hpmap[row.hostid] = IF @ = NoHost THEN row ELSE @,
                                !.proxy_hosts[row.proxyid] = Append(@, row.hostid),
                                !.proxies[row.proxyid].status = ZBX_PG_PROXY_STATUS_ONLINE],
                 Tail(rows))

\* every host counts as unmapped
unmapped_m(hostids, hm) == hostids

\* lines 226-230: the hosts of a group that have no mapping
unmapped(hostids, hm) == SelectSeq(hostids, LAMBDA h : hm[h] = NoHost)

\* lines 218-230: the unmapped hosts are queued for assignment
queue_unmapped(c) ==
    [c EXCEPT !.group_hosts = [g \in DOMAIN @ |->
        [@[g] EXCEPT !.new_hostids = @ \o unmapped(c.group_hosts[g].hostids, c.hpmap)]]]

\* lines 179-231
pgm_db_get_hpmap(c, rows) == queue_unmapped(load_hpmap(c, rows))

\* the rows of a table that holds at most one row per id, in the order of the ids
RECURSIVE TableRows(_, _)
TableRows(choice, ids) ==
    IF ids = <<>> THEN <<>>
    ELSE (IF choice[Head(ids)] = NoInput THEN <<>> ELSE <<choice[Head(ids)]>>)
         \o TableRows(choice, Tail(ids))

BootLastaccess == {1, Horizon}

\* the tables of the database at startup
BootProxyRows ==
    [ProxyIds -> {NoInput} \cup [proxy_groupid : GroupIds, lastaccess : BootLastaccess]]
BootHostRows == [HostIds -> {NoInput} \cup [proxy_groupid : {1}]]
BootHpmapRows == [HostIds -> {NoInput} \cup [proxyid : ProxyIds]]

\* lines 794-803: the cache after pgm_init and pgm_update_groups
InitBoot ==
    /\ \E fd \in FailoverDelays, pr \in BootProxyRows, hr \in BootHostRows,
          mr \in BootHpmapRows :
          /\ groups = [g \in GroupIds |-> BootGroup(IF g = 1 THEN fd ELSE 6, 1, <<>>)]
          /\ db = [proxy |-> TableRows([p \in ProxyIds |->
                                 IF pr[p] = NoInput THEN NoInput
                                 ELSE [proxyid |-> p, proxy_groupid |-> pr[p].proxy_groupid,
                                       lastaccess |-> pr[p].lastaccess]], <<1, 2>>),
                   hosts |-> TableRows([h \in HostIds |->
                                 IF hr[h] = NoInput THEN NoInput
                                 ELSE [hostid |-> h, proxy_groupid |-> hr[h].proxy_groupid]],
                                 <<1, 2>>),
                   host_proxy |-> TableRows([h \in HostIds |->
                                 IF mr[h] = NoInput THEN NoInput
                                 ELSE [hostid |-> h, proxyid |-> mr[h].proxyid,
                                       revision |-> h]], <<1, 2>>)]
    /\ proxies = [p \in ProxyIds |-> NoProxy]
    /\ group_updates = <<1, 2>>
    /\ group_hosts = [g \in GroupIds |-> NoGroupHosts]
    /\ proxy_hosts = [p \in ProxyIds |-> <<>>]
    /\ hpmap = [h \in HostIds |-> NoHost]
    /\ hpmap_revision = 0
    /\ hosts_pending = NoPending
    /\ clock = 0
    /\ nm = NoInput
    /\ hist = NoInput
    /\ pull = NoInput
    /\ pc = "get_hosts"
    /\ relocated_proxies = <<>>
    /\ group_revision = 1
    /\ startup_time = Now
    /\ time_update = 0
    /\ time_now = 0
    /\ running = TRUE
    /\ steps = <<>>
    /\ updated = FALSE
    /\ dc_proxy_group = NoInput
    /\ in_lastaccess = NoInput
    /\ in_junk = NoInput
    /\ in_order = NoInput
    /\ ipc_events = 0
    /\ tx = NoInput
    /\ snap = NoInput
    /\ dc_pub = <<>>
    /\ bt = NoInput
    /\ lk = NoInput
    /\ changed_groups = {}

boot_rest_same ==
    UNCHANGED <<relocated_proxies, group_revision, startup_time, time_update, time_now,
                running, steps, updated, dc_proxy_group, in_lastaccess, in_junk, in_order,
                ipc_events, db, tx, snap, dc_pub, bt, lk, changed_groups, hpmap_revision,
                nm, hist, pull>>

\* line 804
BootGetHosts ==
    /\ pc = "get_hosts"
    /\ group_hosts' = pgm_db_get_hosts(group_hosts, db.hosts)
    /\ pc' = "get_proxies"
    /\ UNCHANGED <<groups, proxies, group_updates, proxy_hosts, hpmap, hosts_pending, clock>>
    /\ boot_rest_same

\* line 805
BootGetProxies ==
    /\ pc = "get_proxies"
    /\ LET c == pgm_db_get_proxies([groups |-> groups, proxies |-> proxies], db.proxy, clock)
       IN  /\ groups' = c.groups
           /\ proxies' = c.proxies
    /\ pc' = "get_hpmap"
    /\ UNCHANGED <<group_updates, group_hosts, proxy_hosts, hpmap, hosts_pending, clock>>
    /\ boot_rest_same

\* line 806
BootGetHpmap ==
    /\ pc = "get_hpmap"
    /\ LET c == pgm_db_get_hpmap([proxies |-> proxies, hpmap |-> hpmap,
                                  hosts_pending |-> hosts_pending,
                                  proxy_hosts |-> proxy_hosts,
                                  group_hosts |-> group_hosts], db.host_proxy)
       IN  /\ proxies' = c.proxies
           /\ hpmap' = c.hpmap
           /\ hosts_pending' = c.hosts_pending
           /\ proxy_hosts' = c.proxy_hosts
           /\ group_hosts' = c.group_hosts
    /\ pc' = "boot_done"
    /\ UNCHANGED <<groups, group_updates, clock>>
    /\ boot_rest_same

NextBoot ==
    \/ BootGetHosts
    \/ BootGetProxies
    \/ BootGetHpmap

SpecBoot == InitBoot /\ [][NextBoot]_vars

(* ------------------------------ properties ---------------------------- *)

\* the step in which pgm_update_status runs
EvalStep == pc \in {"update_status", "eval_first", "eval_second"} /\ pc' # pc

\* the index (from 0) of group g in the queue gu
IndexOf(gu, g) == CHOOSE i \in 0..Len(gu) - 1 : gu[i + 1] = g

\* the number of proxies in the group's own list that are ONLINE
true_online(group, prx) ==
    Cardinality({k \in 1..Len(group.proxies) :
        prx[group.proxies[k]].status = ZBX_PG_PROXY_STATUS_ONLINE})

\* the number of those with now - lastaccess + 5 < failover_delay
true_healthy(group, prx) ==
    Cardinality({k \in 1..Len(group.proxies) :
        /\ prx[group.proxies[k]].status = ZBX_PG_PROXY_STATUS_ONLINE
        /\ Now - prx[group.proxies[k]].lastaccess + 5 < group.failover_delay})

\* online and healthy as the evaluation step computes them for queued group g
step_online(g) ==
    count_online(groups[g], IndexOf(group_updates', g), proxies',
                 in_junk[IndexOf(group_updates', g)])

step_healthy(g) ==
    count_healthy(groups[g], IndexOf(group_updates', g), proxies',
                  in_junk[IndexOf(group_updates', g)])

\* C1: when pgm_update_status evaluates a queued group in RECOVERY with
\* min_online <= healthy, and now - status_time > failover_delay or every proxy
\* of the group is ONLINE, the group becomes ONLINE.
C1_RecoveryBecomesOnline ==
    [][EvalStep =>
        \A g \in Range(group_updates') :
            (/\ groups[g].status = ZBX_PG_GROUP_STATUS_RECOVERY
             /\ groups[g].min_online <= step_healthy(g)
             /\ \/ Now - groups[g].status_time > groups[g].failover_delay
                \/ step_online(g) = Len(groups[g].proxies))
            => groups'[g].status = ZBX_PG_GROUP_STATUS_ONLINE]_vars

\* the transition table for the statuses UNKNOWN, ONLINE, OFFLINE and DECAY
TransitionTable(status, min_online, online, healthy) ==
    CASE status \in {ZBX_PG_GROUP_STATUS_UNKNOWN, ZBX_PG_GROUP_STATUS_ONLINE} ->
            IF min_online > healthy
            THEN ZBX_PG_GROUP_STATUS_DECAY ELSE ZBX_PG_GROUP_STATUS_ONLINE
      [] status = ZBX_PG_GROUP_STATUS_OFFLINE ->
            IF min_online <= online
            THEN ZBX_PG_GROUP_STATUS_RECOVERY ELSE ZBX_PG_GROUP_STATUS_OFFLINE
      [] status = ZBX_PG_GROUP_STATUS_DECAY ->
            IF min_online <= healthy THEN ZBX_PG_GROUP_STATUS_ONLINE
            ELSE IF min_online > online
                 THEN ZBX_PG_GROUP_STATUS_OFFLINE ELSE ZBX_PG_GROUP_STATUS_DECAY

\* C2: one evaluation of a queued group that is UNKNOWN, ONLINE, OFFLINE or
\* DECAY yields exactly the status of the transition table, for the min_online
\* of the group and the online and healthy the evaluation counted.
C2_TransitionTable ==
    [][EvalStep =>
        \A g \in Range(group_updates') :
            groups[g].status # ZBX_PG_GROUP_STATUS_RECOVERY
            => groups'[g].status =
                   TransitionTable(groups[g].status, groups[g].min_online,
                                   step_online(g), step_healthy(g))]_vars

\* a second evaluation is due and the first one took a queued group to OFFLINE
C2_Witness ==
    /\ pc = "eval_second"
    /\ \E g \in Range(group_updates) :
          /\ groups[g].status = ZBX_PG_GROUP_STATUS_OFFLINE
          /\ groups[g].status_time = Now
    /\ \E g \in Range(group_updates) :
          /\ groups[g].status = ZBX_PG_GROUP_STATUS_ONLINE
          /\ groups[g].status_time = Now

\* C3: no step takes an OFFLINE group anywhere but to RECOVERY, nor an ONLINE
\* group anywhere but to DECAY: OFFLINE reaches ONLINE only through RECOVERY and
\* ONLINE reaches OFFLINE only through DECAY.
C3_ThroughRecoveryAndDecay ==
    [][\A g \in GroupIds :
        /\ groups[g].status = ZBX_PG_GROUP_STATUS_OFFLINE
           => groups'[g].status \in {ZBX_PG_GROUP_STATUS_OFFLINE,
                                     ZBX_PG_GROUP_STATUS_RECOVERY}
        /\ groups[g].status = ZBX_PG_GROUP_STATUS_ONLINE
           => groups'[g].status \in {ZBX_PG_GROUP_STATUS_ONLINE,
                                     ZBX_PG_GROUP_STATUS_DECAY}]_vars

\* the loop has just taken a group out of OFFLINE, into RECOVERY
C3_Witness ==
    /\ pc = "update_proxies"
    /\ \E g \in GroupIds :
          /\ groups[g].status = ZBX_PG_GROUP_STATUS_RECOVERY
          /\ groups[g].status_time = Now
          /\ ZBX_PG_GROUP_UPDATE_STATUS \in groups[g].flags

\* C4 as stated: a second run of pgm_update_status with the same now, the same
\* lastaccess and the same group_updates changes no proxy status and no group
\* status.
C4_SecondRunChangesNothing ==
    [][(pc = "eval_second" /\ pc' # pc) =>
        /\ \A p \in ProxyIds : proxies'[p].status = proxies[p].status
        /\ \A g \in GroupIds : groups'[g].status = groups[g].status]_vars

\* C4: a second run of pgm_update_status with the same now, the same lastaccess
\* and the same group_updates changes no proxy status; a group status it
\* changes is that of a queued group, which goes on from DECAY to OFFLINE or
\* from RECOVERY to DECAY.
C4_SecondRunOnlyGoesOn ==
    [][(pc = "eval_second" /\ pc' # pc) =>
        /\ \A p \in ProxyIds : proxies'[p].status = proxies[p].status
        /\ \A g \in GroupIds :
              \/ groups'[g].status = groups[g].status
              \/ /\ g \in Range(group_updates)
                 /\ groups[g].status = ZBX_PG_GROUP_STATUS_DECAY
                 /\ groups'[g].status = ZBX_PG_GROUP_STATUS_OFFLINE
              \/ /\ g \in Range(group_updates)
                 /\ groups[g].status = ZBX_PG_GROUP_STATUS_RECOVERY
                 /\ groups'[g].status = ZBX_PG_GROUP_STATUS_DECAY]_vars

\* both runs are over and a queued group is OFFLINE since one of them
C4_Witness ==
    /\ pc = "eval_done"
    /\ \E g \in Range(group_updates) :
          /\ groups[g].status = ZBX_PG_GROUP_STATUS_OFFLINE
          /\ groups[g].status_time = Now
          /\ groups[g].min_online > true_online(groups[g], proxies)

\* C5: while the loop runs, a group in DECAY with fewer than min_online ONLINE
\* proxies eventually becomes OFFLINE, even when no proxy status changes any
\* more (unless its proxies or its min_online change first).
C5_DecayBecomesOffline ==
    \A g \in GroupIds :
        (/\ running
         /\ groups[g].status = ZBX_PG_GROUP_STATUS_DECAY
         /\ true_online(groups[g], proxies) < groups[g].min_online)
        ~> (\/ groups[g].status = ZBX_PG_GROUP_STATUS_OFFLINE
            \/ true_online(groups[g], proxies) >= groups[g].min_online
            \/ ~running)

\* C6: for every group that pgm_update_status evaluates, online is the number
\* of ONLINE proxies in the group's own list and healthy the number of those
\* with now - lastaccess + 5 < failover_delay, whatever the position of the
\* group in group_updates and the number of its proxies.
C6_CountsOwnProxies ==
    [][EvalStep =>
        \A g \in Range(group_updates') :
            /\ step_online(g) = true_online(groups[g], proxies')
            /\ step_healthy(g) = true_healthy(groups[g], proxies')]_vars

\* the classification of a proxy from the lastaccess la that the configuration
\* cache reported
reported_classify(proxy, la, failover_delay, startup) ==
    IF Now - la >= failover_delay
    THEN IF Now - startup >= failover_delay
         THEN [status |-> ZBX_PG_PROXY_STATUS_OFFLINE, firstaccess |-> 0]
         ELSE [status |-> proxy.status, firstaccess |-> proxy.firstaccess]
    ELSE LET fa == IF proxy.firstaccess = 0 THEN la ELSE proxy.firstaccess
         IN  [status |-> IF Now - fa >= failover_delay
                         THEN ZBX_PG_PROXY_STATUS_ONLINE ELSE proxy.status,
              firstaccess |-> fa]

\* C7: pgm_update_status classifies every proxy from the lastaccess refreshed
\* from the configuration cache: OFFLINE with firstaccess 0 when the proxy and
\* the process are both older than failover_delay, ONLINE when the proxy has
\* been seen for failover_delay, its status unchanged otherwise.
C7_ClassifiesFromLastaccess ==
    [][EvalStep =>
        \A p \in ProxyIds :
            proxies[p] # NoProxy
            => LET c == reported_classify(proxies[p], in_lastaccess[p],
                            groups[proxies[p].group].failover_delay, startup_time)
               IN  /\ proxies'[p].status = c.status
                   /\ proxies'[p].firstaccess = c.firstaccess]_vars

\* C8: in an evaluation a group's status_time is set to now if and only if its
\* status changes; a group whose status is unchanged, or that is not in
\* group_updates, keeps its status_time.
C8_StatusTimeIffChanged ==
    [][EvalStep =>
        \A g \in GroupIds :
            /\ groups'[g].status # groups[g].status
               => groups'[g].status_time = Now
            /\ groups'[g].status = groups[g].status
               => groups'[g].status_time = groups[g].status_time
            /\ g \notin Range(group_updates')
               => groups'[g].status_time = groups[g].status_time]_vars

\* the first evaluation changed the status of one queued group and left the
\* status of the other queued group as it was
C8_Witness ==
    /\ pc = "eval_second"
    /\ \E g, h \in Range(group_updates) :
          /\ groups[g].status_time = Now
          /\ ZBX_PG_GROUP_UPDATE_STATUS \in groups[g].flags
          /\ groups[h].status_time < Now
          /\ groups[h].flags = {}

\* C9: group sync and status evaluation run in an iteration only when at least
\* PGM_STATUS_CHECK_INTERVAL seconds have passed since the iteration in which
\* they last ran.
C9_RunsOncePerInterval ==
    (pc = "update_groups" /\ updated)
    => time_now - time_update >= PGM_STATUS_CHECK_INTERVAL

\* the place of a step in the order of C10
StepRank(step) ==
    CASE step = "update_groups" -> 1
      [] step = "update_status" -> 2
      [] step = "update_proxies" -> 3
      [] step = "sleep" -> 4
      [] step = "flush" -> 5

\* C10: the steps that ran in the current iteration ran in the order group
\* sync, status evaluation, proxy relocation, sleep, flush.
C10_StepOrder ==
    \A i, j \in 1..Len(steps) : i < j => StepRank(steps[i]) < StepRank(steps[j])

\* an iteration in which all five steps ran
C10_Witness ==
    /\ pc = "head"
    /\ steps = <<"update_groups", "update_status", "update_proxies", "sleep", "flush">>

\* the batches that hold the mapping at index k
BatchesOf(k) ==
    {j \in 1..Len(bt.batches) :
        bt.batches[j].start <= k /\ k < bt.batches[j].start + bt.batches[j].size}

\* C15: pgm_db_flush_host_proxy_inserts splits N new mappings into consecutive
\* batches of at most 1000, ceil(N / 1000) of them, all full except possibly the
\* last, every mapping in exactly one batch; when every host and proxy still
\* exists N rows are inserted.
C15_BatchesCoverOnce ==
    pc = "insert_done" =>
        /\ Len(bt.batches) = (bt.n + PGM_INSERT_BATCH_SIZE - 1) \div PGM_INSERT_BATCH_SIZE
        /\ \A j \in 1..Len(bt.batches) :
              /\ bt.batches[j].start = (j - 1) * PGM_INSERT_BATCH_SIZE
              /\ bt.batches[j].size >= 1
              /\ bt.batches[j].size <= PGM_INSERT_BATCH_SIZE
              /\ j < Len(bt.batches) => bt.batches[j].size = PGM_INSERT_BATCH_SIZE
        /\ \A k \in 0..bt.n - 1 : Cardinality(BatchesOf(k)) = 1
        /\ bt.gone = -1 => bt.inserted = bt.n

\* more than two full batches and a last one that is not full, all inserted
C15_Witness ==
    /\ pc = "insert_done"
    /\ bt.n > 2 * PGM_INSERT_BATCH_SIZE
    /\ bt.n % PGM_INSERT_BATCH_SIZE # 0
    /\ Len(bt.batches) = 3
    /\ bt.gone = -1
    /\ bt.inserted = bt.n

\* the rows that a flush is to leave in host_proxy: those it found, the
\* modified ones overwritten, the deleted ones removed, the new ones added
ExpectedRows(rows, sn, new) ==
    {r \in Range(rows) : r.hostid \notin HostsOf(sn.hosts_mod) \cup HostsOf(sn.hosts_del)}
    \cup Range(sn.hosts_mod) \cup new

\* the new mappings whose host and proxy are still in the database
InsertableNew(sn) ==
    {h \in Range(sn.hosts_new) : h.hostid \in db.hosts /\ h.proxyid \in db.proxy}

\* the step in which the transaction of a flush ends for good
FlushEnds == pc = "flush_commit" /\ pc' = "flush_after"

\* C11 as stated: after every completed flush host_proxy holds the previous
\* rows with the drained new mappings added, the modified ones overwritten and
\* the deleted ones removed, each exactly once.
C11_FlushPersistsDelta ==
    [][FlushEnds =>
        /\ Range(db'.host_proxy) = ExpectedRows(db.host_proxy, snap, Range(snap.hosts_new))
        /\ Len(db'.host_proxy) = Cardinality(Range(db'.host_proxy))]_vars

\* C11: after a flush whose commit succeeds host_proxy holds the previous rows
\* with the drained new mappings whose host and proxy still exist added, the
\* modified ones overwritten and the deleted ones removed, each exactly once;
\* after a flush whose commit fails host_proxy is unchanged.
C11_CommittedFlushPersistsDelta ==
    [][FlushEnds =>
        IF tx'.ret = "OK"
        THEN /\ Range(db'.host_proxy) = ExpectedRows(db.host_proxy, snap, InsertableNew(snap))
             /\ Len(db'.host_proxy) = Cardinality(Range(db'.host_proxy))
        ELSE db'.host_proxy = db.host_proxy]_vars

\* a flush committed a new mapping together with a delete, after a retry
C11_Witness ==
    /\ pc = "tick_done"
    /\ tx.ret = "OK"
    /\ tx.downs > 0
    /\ snap.hosts_new # <<>>
    /\ snap.hosts_del # <<>>
    /\ Range(snap.hosts_new) \subseteq Range(db.host_proxy)
    /\ HostsOf(snap.hosts_del) \cap HostsOf(db.host_proxy) = {}

\* the number of rows of host_proxy equal to mapping h
RowCount(h) == Cardinality({i \in 1..Len(db.host_proxy) : db.host_proxy[i] = h})

C13_FailedCommitKeepsPending ==
    (pc = "tick_done" /\ snap # NoInput /\ tx.ret = "FAIL") =>
        /\ \A i \in 1..Len(snap.groups) :
              snap.groups[i].proxy_groupid \in Range(group_updates)
        /\ Range(snap.hosts_new) \subseteq Range(hosts_pending.new)
        /\ Range(snap.hosts_mod) \subseteq Range(hosts_pending.mod)
        /\ Range(snap.hosts_del) \subseteq Range(hosts_pending.del)

\* C14: when the commit of the tick's flush succeeds, every group a host of
\* which got a proxy during the tick has been passed to
\* zbx_dc_update_group_hpmap_revision with the new hpmap_revision.
C14_ChangePublishedInTick ==
    (pc = "tick_done" /\ tx.ret = "OK") =>
        \A g \in changed_groups :
            \E i \in 1..Len(dc_pub) :
                /\ g \in Range(dc_pub[i].groupids)
                /\ dc_pub[i].revision = hpmap_revision

\* the highest lastaccess of the proxy table
RECURSIVE MaxLastaccess(_)
MaxLastaccess(rows) ==
    IF rows = <<>> THEN 0
    ELSE LET rest == MaxLastaccess(Tail(rows))
         IN  IF Head(rows).lastaccess > rest THEN Head(rows).lastaccess ELSE rest

\* the proxies that own a row of host_proxy
MappedProxies == {db.host_proxy[i].proxyid : i \in 1..Len(db.host_proxy)}

\* C16: after the proxies are loaded at startup the reference clock is the
\* highest persisted lastaccess, every proxy without a host_proxy row is
\* OFFLINE when the clock minus its persisted lastaccess reaches the
\* failover_delay of its group and ONLINE otherwise, and every firstaccess is 0.
C16_BootStatusFromHighestLastaccess ==
    (pc = "boot_done" /\ db.proxy # <<>>) =>
        /\ clock = MaxLastaccess(db.proxy)
        /\ \A i \in 1..Len(db.proxy) :
              LET row == db.proxy[i]
              IN  /\ proxies[row.proxyid].firstaccess = 0
                  /\ row.proxyid \notin MappedProxies =>
                        proxies[row.proxyid].status =
                            IF MaxLastaccess(db.proxy) - row.lastaccess
                                   >= groups[row.proxy_groupid].failover_delay
                            THEN ZBX_PG_PROXY_STATUS_OFFLINE
                            ELSE ZBX_PG_PROXY_STATUS_ONLINE

\* C17: after startup every host_proxy row of a cached proxy has its mapping
\* in hpmap, attached to that proxy; every row of an unknown proxy has no
\* mapping and a delete queued; and the new_hostids of every group are exactly
\* the hostids of the group that have no mapping.
C17_BootLoadsMappings ==
    pc = "boot_done" =>
        /\ \A i \in 1..Len(db.host_proxy) :
              LET row == db.host_proxy[i]
              IN  IF proxies[row.proxyid] # NoProxy
                  THEN /\ hpmap[row.hostid] = row
                       /\ row.hostid \in Range(proxy_hosts[row.proxyid])
                  ELSE /\ hpmap[row.hostid] = NoHost
                       /\ row.hostid \in HostsOf(hosts_pending.del)
                       /\ \A p \in ProxyIds : row.hostid \notin Range(proxy_hosts[p])
        /\ \A g \in GroupIds :
              /\ Range(group_hosts[g].new_hostids) =
                     {h \in Range(group_hosts[g].hostids) : hpmap[h] = NoHost}
              /\ Len(group_hosts[g].new_hostids) =
                     Cardinality(Range(group_hosts[g].new_hostids))

\* startup found a mapping of a cached proxy and one of an unknown proxy, and
\* left one host of group 1 mapped and the other one queued for assignment
C17_Witness ==
    /\ pc = "boot_done"
    /\ \E i \in 1..Len(db.host_proxy) : proxies[db.host_proxy[i].proxyid] # NoProxy
    /\ \E i \in 1..Len(db.host_proxy) : proxies[db.host_proxy[i].proxyid] = NoProxy
    /\ Len(group_hosts[1].hostids) = 2
    /\ Len(group_hosts[1].new_hostids) = 1
    /\ hosts_pending.del # <<>>

\* the queue that inserts proxy p into group g and then deletes it from g
InsertThenDelete(p, g) ==
    <<[objid |-> p, srcid |-> 0, dstid |-> g], [objid |-> p, srcid |-> g, dstid |-> 0]>>

\* C20: when the relocation queue holds the insert of a proxy p into group g
\* followed by the delete of p from g, one run of the relocator creates p in g
\* and then removes and frees it: afterwards p is neither cached nor in the
\* proxies of g, g is in group_updates and the queue is empty.
C20_InsertThenDeleteInOrder ==
    [][\A p \in ProxyIds, g \in GroupIds :
          (pc = "update_proxies" /\ pc' # pc /\ proxies[p] = NoProxy
           /\ relocated_proxies = InsertThenDelete(p, g)) =>
              /\ LET created == relocate(Cache, Head(relocated_proxies))
                 IN  /\ created.proxies[p] # NoProxy
                     /\ created.proxies[p].group = g
                     /\ p \in Range(created.groups[g].proxies)
              /\ proxies'[p] = NoProxy
              /\ p \notin Range(groups'[g].proxies)
              /\ g \in Range(group_updates')
              /\ relocated_proxies' = <<>>]_vars

\* the relocator has run on the insert of proxy 2 into group 1 followed by
\* its delete from group 1
C20_Witness ==
    /\ pc = loop_next("update_proxies")
    /\ steps = <<"update_proxies">>
    /\ ipc_events = 2
    /\ dc_proxy_group[2] = 0
    /\ dc_proxy_group[1] = 1
    /\ proxies[2] = NoProxy
    /\ groups[1].proxies = <<1>>
    /\ group_updates = <<1>>
    /\ relocated_proxies = <<>>

\* the steps of pgm_update_status, pgm_update_proxies and pgm_flush_updates
\* after which the function is still running
InsideLocked ==
    {"status_lock", "status_eval", "proxies_lock", "proxies_scan", "names_unlock",
     "names_query", "names_lock", "proxies_apply", "updates_lock", "updates_drain",
     "updates_unlock", "flush_sql", "flush_revision", "flush_commit"}

\* C18: once the IPC service thread runs, the manager thread holds the cache
\* lock during every step in which it reads or writes the cache, bootstrap,
\* group sync, queue length tests and the flush's reads of hpmap_revision
\* included.
C18_CacheAccessUnderLock ==
    lk.cache => lk.held

\* C19: the manager thread holds the cache lock during no database call and
\* no sleep, and the lock is not held by it whenever none of pgm_update_status,
\* pgm_update_proxies and pgm_flush_updates is running.
C19_NoIoUnderLock ==
    /\ lk.io => ~lk.held
    /\ lk.at \notin InsideLocked => lk.holder # "manager"
    /\ lk.holder = "manager" =>
          Program[lk.at].fn \in {"pgm_update_status", "pgm_update_proxies",
                                 "pgm_flush_updates"}

\* the names of new proxies have been queried, with the lock given up before
\* the query and the IPC service thread holding it meanwhile
C19_Witness ==
    /\ lk.at = "names_query"
    /\ lk.io
    /\ lk.holder = "ipc"
    /\ pc = "names_lock"

\* the ids the select found a row for
FoundIds == {nm.rows[j].proxyid : j \in 1..Len(nm.rows)}

\* C21: the names built by pgm_get_proxy_names hold one entry per id of
\* proxyids, in the same order, whatever rows the database returns, and a
\* created proxy gets the database name of its id, or the empty name when the
\* database has no row for it.
C21_NamesAlignedWithIds ==
    pc \in {"names_give", "names_done"} =>
        /\ Len(nm.names) = Len(nm.proxyids)
        /\ \A j \in 1..Len(nm.proxyids) :
              (j <= Len(nm.names) /\ nm.proxyids[j] \in FoundIds) =>
                  nm.names[j] = NameOf(nm.proxyids[j])
        /\ \A p \in NameIds :
              nm.given[p] # "none" =>
                  nm.given[p] = IF p \in FoundIds THEN NameOf(p) ELSE EmptyName

\* a step of group sync
SyncStep == pc = "update_groups" /\ pc' # pc

\* C22: after a successful group sync a group that is still in the cache has
\* been queued by that sync exactly when its revision is above the
\* group_revision the cache held before the pull, the queue keeping what it
\* held; after a failed pull no group is removed and none is queued.
C22_SyncQueuesRevisedGroups ==
    [][SyncStep =>
        IF pull'.ret = "SUCCEED"
        THEN /\ \A g \in GroupIds :
                   groups'[g] # NoGroup =>
                       (g \in Range(group_updates') <=>
                            (g \in Range(group_updates)
                             \/ groups'[g].revision > group_revision))
             /\ Len(group_updates') >= Len(group_updates)
             /\ SubSeq(group_updates', 1, Len(group_updates)) = group_updates
             /\ Len(group_updates') = Cardinality(Range(group_updates'))
        ELSE /\ groups' = groups
             /\ group_updates' = group_updates]_vars

\* a successful sync has removed group 2 and queued the revised group 1,
\* which was not queued before
C22_Witness ==
    /\ pc = "update_proxies"
    /\ pull # NoInput
    /\ pull.ret = "SUCCEED"
    /\ pull.outcome = [g \in GroupIds |-> IF g = 1 THEN "changed" ELSE "missing"]
    /\ groups[2] = NoGroup
    /\ groups[1].revision = group_revision
    /\ group_updates = <<1>>

\* C23: every proxy of the cache refers to a group of the cache, after
\* bootstrap, group sync and relocation; when group sync removes a group no
\* proxy of that group remains.
C23_ProxyGroupInCache ==
    \A p \in ProxyIds :
        proxies[p] # NoProxy => groups[proxies[p].group] # NoGroup

\* C24: once the running flag is cleared the loop calls pgm_flush_updates no
\* more, so nothing is drained from the cache before the teardown, also when
\* the flag is cleared during the sleep.
C24_NoFlushAfterStop ==
    [][(~running /\ pc = "flush" /\ pc' # pc) =>
          /\ group_updates' = group_updates
          /\ "flush" \notin Range(steps')]_vars

\* C25: every relocation event the IPC thread has queued is either still in
\* the queue or has been applied by the relocator, once and in the order of
\* the queue, also when it was queued while the relocator had given up the
\* lock for the names; the queue is empty when the relocator has applied it
\* and until it gives up the lock.
C25_EventsAppliedOnce ==
    /\ hist.queued = hist.applied \o relocated_proxies
    /\ pc = "proxies_unlock" => (relocated_proxies = <<>> /\ lk.holder = "manager")

\* the relocator has applied two events, the second one queued while it had
\* given up the lock to query the names
C25_Witness ==
    /\ pc = "proxies_unlock"
    /\ lk.at = "proxies_apply"
    /\ Len(hist.applied) = 2
    /\ hist.applied = hist.queued
    /\ nm.scanned = 1
    /\ nm.applied = 0

\* C26: when the status evaluation changes the status of a group that carries
\* UPDATE_HP_MAP, the group carries it afterwards too: the change adds
\* UPDATE_STATUS to the flags and leaves the other flags as they were.
C26_StatusChangeKeepsFlags ==
    [][(pc = "update_status" /\ pc' # pc) =>
          \A g \in GroupIds :
              groups'[g].status # groups[g].status =>
                  groups'[g].flags = groups[g].flags \cup {ZBX_PG_GROUP_UPDATE_STATUS}]_vars

\* the mappings that wait in the cache for the next flush
PendingMappings == Range(hosts_pending.new) \cup Range(hosts_pending.mod)

\* C27: after a committed flush the hpmap_revision published to the configuration
\* cache is the one the transaction wrote to the ids table, and it is the
\* revision of the drained changes: no mapping that still waits in the cache
\* for a later flush has a revision it covers. This also holds when the IPC
\* service thread changes the cache's hpmap_revision during the transaction.
C27_PublishedRevisionIsWritten ==
    (pc = "tick_done" /\ tx.ret = "OK") =>
        /\ dc_pub # <<>>
        /\ dc_pub[Len(dc_pub)].revision = db.nextid
        /\ \A mapping \in PendingMappings : mapping.revision > db.nextid
====
